---------------------------- MODULE Spec2Model ----------------------------
(***************************************************************************)
(* The webhook-to-order-to-position pipeline of the trading dashboard      *)
(* (server/routes/webhook.js) over the SQLite tables of database/init.js,  *)
(* together with the broker connect / disconnect handlers of               *)
(* server/routes/broker.js that decide which connection a webhook finds.   *)
(*                                                                         *)
(* One webhook call is a process.  A step of a call is the code between    *)
(* two awaits: the continuation of the previous await together with the    *)
(* execution of the next SQL statement (a statement is atomic in SQLite;   *)
(* the code around it only touches locals of the call).  Calls interleave  *)
(* at these steps, as they do in the single Node.js process.               *)
(*                                                                         *)
(* A missing JSON field is modelled by the falsy value of its type ("" for *)
(* strings, 0 for numbers): the handler only tests fields with `!`.        *)
(* Prices are integers; average_price is kept as an exact fraction         *)
(* <<numerator, denominator>> (floating point rounding is not modelled).   *)
(*                                                                         *)
(* Spec      calls overlap; every SQL statement is executed.               *)
(* SpecSeq   as Spec, with calls processed one at a time.                  *)
(* SpecFault calls overlap and any SQL statement may be rejected.          *)
(* SpecBroker calls one at a time; connect requests name either broker.    *)
(* SpecConnect connect and disconnect requests that overlap.               *)
(* SpecExchange one call, connect, disconnect and Zerodha token exchange.  *)
(* SpecCrypto calls of encryptData and decryptData (utils/encryption.js).  *)
(* SpecAuth  requests to the auth routes (register, OTP, password reset).  *)
(***************************************************************************)
EXTENDS Integers, Sequences, FiniteSets, TLC

(* ------------------------------ bounds -------------------------------- *)
MaxCalls == 2
MaxConnects == 1
MaxExchanges == 1
MaxAuthRequests == 2
MaxOtps == 1
MaxResetTokens == 1
MaxTime == 3

(* ------------------------------ inputs -------------------------------- *)
Users == {1, 2}
Calls == 1..MaxCalls
ConnReqs == 1..MaxConnects
\* one request more for SpecConnect, where connect requests overlap
ConnSlots == 1..(MaxConnects + 1)
Symbols == {"RELIANCE"}
Actions == {"BUY", "SELL", "HOLD"}
Quantities == {10, 20}
ExecPrices == {120}
RequestPrices == {110}
BrokerNames == {"Zerodha"}
\* a second broker, offered to the connect requests of SpecBroker only
OtherBrokerNames == {"Upstox"}
\* the first broker in another spelling, for SpecConnect
OtherSpellings == {"ZERODHA"}
\* tokens that kiteService.generateAccessToken returns, and those of an earlier run
AccessTokens == {"AT0", "AT1"}
PublicTokens == {"PT0", "PT1"}
\* requests to the auth routes; a slot is used again after its answer
AuthRequests == 1..MaxAuthRequests
\* req.body.email of /register, and the identifiers of the other routes
\* ("" stands for a missing field)
RegisterEmails == {"a@x.in"}
Identifiers == {"", "a@x.in", "b@x.in"}
\* crypto.randomInt(100000, 999999).toString()
OtpCodes == {"111111"}
\* req.body.otp: the code, another code, or none
GuessedCodes == {"", "111111", "222222"}
\* bodies of /verify-otp and /verify-otp-reset that lack a field
IncompleteGuesses == {<<"", "111111">>, <<"a@x.in", "">>}
\* bodies of /reset-password that lack a field
IncompleteResets == {<<"", "p1">>, <<"uuid-1", "">>}
\* crypto.randomUUID() of the n-th reset token
RandomUUID(n) == IF n = 1 THEN "uuid-1" ELSE IF n = 2 THEN "uuid-2" ELSE "uuid-3"
ResetTokens == {"", "uuid-1", "uuid-2", "uuid-9"}
\* 5 * 60, 10 * 60 and 15 * 60 seconds
RegisterOtpTtl == 1
ForgotOtpTtl == 2
ResetTokenTtl == 3

\* requests of GET /auth/zerodha/callback and POST /auth/zerodha
Exchanges == 1..MaxExchanges
\* connection_id: 0 stands for a missing parameter, 9 for an id of no row
ConnectionIds == {0, 1, 2, 9}
RequestTokens == {"", "RT"}
\* what kiteService.generateAccessToken resolves with
AuthDatas == {[access_token |-> "AT1", public_token |-> "PT1"]}

\* req.query of the callback: the query Zerodha redirects with after a login,
\* and queries that differ from it in one parameter
LoginQueries ==
  [request_token : {"RT"}, action : {"login"}, status : {"success"},
   connection_id : ConnectionIds \ {0}]

OtherQueries ==
  { [request_token |-> "RT", action |-> "basket", status |-> "success", connection_id |-> 1],
    [request_token |-> "RT", action |-> "login", status |-> "cancelled", connection_id |-> 1],
    [request_token |-> "", action |-> "login", status |-> "success", connection_id |-> 1],
    [request_token |-> "RT", action |-> "login", status |-> "success", connection_id |-> 0] }

CallbackQueries == LoginQueries \cup OtherQueries

ReturnedStatuses == {"EXECUTED", "REJECTED"}
AdapterMessages == {"Broker timeout"}

\* req.body of POST /webhook/:userId
ValidPayloads ==
  [symbol : Symbols, action : Actions, quantity : Quantities, price : RequestPrices]

InvalidPayloads ==
  { [symbol |-> "", action |-> "BUY", quantity |-> 10, price |-> 0],
    [symbol |-> "RELIANCE", action |-> "", quantity |-> 10, price |-> 0],
    [symbol |-> "RELIANCE", action |-> "SELL", quantity |-> 0, price |-> 0] }

Payloads == ValidPayloads \cup InvalidPayloads

NoPayload == [symbol |-> "", action |-> "", quantity |-> 0, price |-> 0]

\* webhook.js line 20: !payload.symbol || !payload.action || !payload.quantity
InvalidPayload(p) == p.symbol = "" \/ p.action = "" \/ p.quantity = 0

(* ------------------------------ state --------------------------------- *)
VARIABLES
  webhook_logs,        \* table webhook_logs: sequence of rows, id = index
  orders,              \* table orders: sequence of rows, id = index
  positions,           \* table positions: set of rows (rows are deleted)
  positionSeq,         \* AUTOINCREMENT counter of positions
  broker_connections,  \* table broker_connections: sequence of rows, id = index
  pc,                  \* position of each webhook call in the handler
  call,                \* locals of each webhook call
  audit,               \* history of each webhook call (not program state)
  connect,             \* locals of each POST /broker/connect request
  vault,               \* encryptData / decryptData: tokens made, last decryption
  exchange,            \* locals of each Zerodha request-token exchange request
  users,               \* table users: sequence of rows, id = index
  otps,                \* table otps: set of rows (rows are deleted)
  password_reset_tokens, \* table password_reset_tokens: set of rows
  clock,               \* Math.floor(Date.now() / 1000), in units of 5 minutes
  authReq,             \* locals of each request to the auth routes
  ledger               \* every OTP and reset token issued (not program state)

\* the state outside the webhook pipeline and the connect handler
\* the state of the auth routes
authVars == <<users, otps, password_reset_tokens, clock, authReq, ledger>>

sideVars == <<vault, exchange, users, otps, password_reset_tokens, clock,
              authReq, ledger>>

\* the state of the webhook pipeline and the connect handler
pipelineVars == <<webhook_logs, orders, positions, positionSeq,
                  broker_connections, pc, call, audit, connect>>

vars == <<webhook_logs, orders, positions, positionSeq, broker_connections,
          pc, call, audit, connect, vault, exchange, users, otps,
          password_reset_tokens, clock, authReq, ledger>>

NoResponse == [orderId |-> "", status |-> "", executedPrice |-> 0]
\* created_by stands for created_at: the order whose fill inserted the row
NoPosition == [id |-> 0, user_id |-> 0, symbol |-> "", quantity |-> 0,
               average_price |-> <<0, 1>>, created_by |-> 0]

InitCall ==
  [userId |-> 0, payload |-> NoPayload, brokerConnection |-> 0, orderId |-> 0,
   brokerResponse |-> NoResponse, brokerError |-> "",
   existingPosition |-> NoPosition, res |-> 0]

\* logId: lastID of the call's INSERT INTO webhook_logs (the code drops it);
\* the counters count what the call did.
InitAudit ==
  [logId |-> 0, logInserts |-> 0, orderInserts |-> 0, brokerCalls |-> 0,
   positionWrites |-> 0, responses |-> 0]

InitConnect == [state |-> "idle", user |-> 0, brokerName |-> "", existing |-> 0]

\* authData of kiteService.generateAccessToken before it has resolved
NoAuthData == [access_token |-> "", public_token |-> ""]

\* user is req.user.id of POST /auth/zerodha and 0 for the callback, which
\* carries no authentication; connection is the row the SELECT returned;
\* updates counts the UPDATE statements of the request (not program state).
InitExchange ==
  [state |-> "idle", route |-> "", user |-> 0, request_token |-> "",
   action |-> "", status |-> "", connection_id |-> 0, connection |-> 0,
   authData |-> NoAuthData, res |-> 0, updates |-> 0]

\* record is the id of the row the SELECT of the request returned (0: none)
InitAuthReq ==
  [state |-> "idle", route |-> "", identifier |-> "", otp |-> "",
   resetToken |-> "", password |-> "", now |-> 0, record |-> 0,
   res |-> 0, body |-> ""]

\* the columns of the tables that the handlers read or write
WebhookLogRow ==
  [user_id : Users, payload : Payloads, status : {"RECEIVED", "SUCCESS", "ERROR"},
   error_message : STRING]

OrderRow ==
  [user_id : Users, symbol : Symbols, quantity : Quantities, side : Actions,
   price : RequestPrices, status : {"PENDING", "FAILED"} \cup ReturnedStatuses,
   broker_order_id : STRING, executed_price : {0} \cup ExecPrices \cup {100}]

PositionRow ==
  [id : Nat \ {0}, user_id : Users, symbol : Symbols, quantity : Int,
   average_price : Int \X Nat, created_by : Nat \ {0}]

BrokerConnectionRow ==
  [user_id : Users, broker_name : {"zerodha", "upstox"}, is_active : {0, 1},
   access_token : {""} \cup AccessTokens, public_token : {""} \cup PublicTokens]

TypeOK ==
  /\ webhook_logs \in Seq(WebhookLogRow)
  /\ orders \in Seq(OrderRow)
  /\ positions \subseteq PositionRow
  /\ \A p, q \in positions :
       (p.id = q.id \/ (p.user_id = q.user_id /\ p.symbol = q.symbol)) => p = q
  /\ \A p \in positions : p.id <= positionSeq
  /\ broker_connections \in Seq(BrokerConnectionRow)
  /\ pc \in [Calls -> {"idle", "logged", "resolved", "ordered", "placed",
                        "caught", "orderUpdated", "positionRead",
                        "positionDone", "failedMarked", "done"}]
  /\ \A c \in Calls : call[c].res \in {0, 200, 400, 500}

(* ------------------- server/utils/encryption.js ----------------------- *)
\* A string is a sequence of UTF-16 code units.  Four units stand for all:
\* two ASCII characters, an unpaired surrogate (U+D800) and U+FFFD.
MaxText == 2
CodeUnits == {"k", "7", "D800", "FFFD"}
Texts == UNION {[1..n -> CodeUnits] : n \in 1..MaxText}

\* values of process.env.ENCRYPTION_KEY (line 3) and of crypto.randomBytes (32)
EncryptionKeys == {1, 2}
RandomIvs == {<<0>>, <<9>>}

\* A byte has two bits and a cipher block two bytes, so that a block is one
\* hexadecimal digit of the token; AES-256-CBC has 8 and 16.
ByteValues == 4
BlockSize == 2
Blocks == 0..(ByteValues * ByteValues - 1)

\* update(text, 'utf8'): one byte for ASCII, a lead and a continuation byte
\* for U+FFFD; an unpaired surrogate is written as U+FFFD
RECURSIVE Utf8Encode(_)
Utf8Encode(text) ==
  IF text = <<>> THEN <<>>
  ELSE (CASE Head(text) = "k" -> <<0>>
          [] Head(text) = "7" -> <<1>>
          [] OTHER -> <<3, 2>>) \o Utf8Encode(Tail(text))

\* update(..., 'utf8') of the decipher: bytes that are no character give U+FFFD
RECURSIVE Utf8Decode(_)
Utf8Decode(bytes) ==
  IF bytes = <<>> THEN <<>>
  ELSE IF bytes[1] = 0 THEN <<"k">> \o Utf8Decode(Tail(bytes))
  ELSE IF bytes[1] = 1 THEN <<"7">> \o Utf8Decode(Tail(bytes))
  ELSE IF bytes[1] = 3 /\ Len(bytes) >= 2 /\ bytes[2] = 2
       THEN <<"FFFD">> \o Utf8Decode(Tail(Tail(bytes)))
  ELSE <<"FFFD">> \o Utf8Decode(Tail(bytes))

\* PKCS#7 padding of cipher.final(): n bytes of value n, 1 <= n <= BlockSize
Pad(bytes) ==
  LET n == BlockSize - (Len(bytes) % BlockSize)
  IN bytes \o [i \in 1..n |-> n]

PadLength(bytes) ==
  LET n == bytes[Len(bytes)]
  IN IF n \in 1..BlockSize /\ \A i \in 1..n : bytes[Len(bytes) + 1 - i] = n
     THEN n ELSE 0

ToBlocks(bytes) ==
  [i \in 1..(Len(bytes) \div BlockSize) |->
     ByteValues * bytes[2 * i - 1] + bytes[2 * i]]

RECURSIVE FromBlocks(_)
FromBlocks(blocks) ==
  IF blocks = <<>> THEN <<>>
  ELSE <<Head(blocks) \div ByteValues, Head(blocks) % ByteValues>>
         \o FromBlocks(Tail(blocks))

Xor(a, b) ==
  ((a + b) % 2)
  + 2 * (((a \div 2) + (b \div 2)) % 2)
  + 4 * (((a \div 4) + (b \div 4)) % 2)
  + 8 * (((a \div 8) + (b \div 8)) % 2)

\* lines 7-27 and crypto.createCipher(ALGORITHM, key): key and IV of the cipher
\* are both derived from the configured key; the block cipher is a permutation
\* of the blocks chosen by the key
getKey(k) == IF k = 1 THEN 5 ELSE 3
DerivedIv(k) == IF k = 1 THEN 6 ELSE 11
EncryptBlock(k, b) == (getKey(k) * b + k) % (ByteValues * ByteValues)
DecryptBlock(k, c) == CHOOSE b \in Blocks : EncryptBlock(k, b) = c

RECURSIVE CbcEncrypt(_, _, _)
CbcEncrypt(k, previous, blocks) ==
  IF blocks = <<>> THEN <<>>
  ELSE LET c == EncryptBlock(k, Xor(Head(blocks), previous))
       IN <<c>> \o CbcEncrypt(k, c, Tail(blocks))

CbcDecrypt(k, blocks) ==
  [i \in 1..Len(blocks) |->
     Xor(DecryptBlock(k, blocks[i]),
         IF i = 1 THEN DerivedIv(k) ELSE blocks[i - 1])]

\* a value handed to decryptData that is not a string (a NULL column)
NotAString == [string |-> FALSE, parts |-> <<>>]

\* lines 29-41: iv.toString('hex') + ':' + encrypted; the random iv is not
\* given to the cipher
encryptData(text, k, iv) ==
  [string |-> TRUE,
   parts |-> <<iv, CbcEncrypt(k, DerivedIv(k), ToBlocks(Pad(Utf8Encode(text))))>>]

Decrypted(text) == [ok |-> TRUE, value |-> text, message |-> ""]
DecryptionError == [ok |-> FALSE, value |-> <<>>, message |-> "Failed to decrypt data"]

\* a decipher that starts from the iv of the token, which the cipher of
\* encryptData never used
decryptData_TokenIv(encryptedData, k) ==
  IF ~encryptedData.string THEN DecryptionError
  ELSE IF Len(encryptedData.parts) # 2 THEN DecryptionError
  ELSE IF encryptedData.parts[2] = <<>> THEN DecryptionError
  ELSE LET blocks == encryptedData.parts[2]
           plain == [i \in 1..Len(blocks) |->
                       Xor(DecryptBlock(k, blocks[i]),
                           IF i = 1 THEN encryptedData.parts[1][1]
                           ELSE blocks[i - 1])]
           bytes == FromBlocks(plain)
       IN IF PadLength(bytes) = 0 THEN DecryptionError
          ELSE Decrypted(Utf8Decode(SubSeq(bytes, 1, Len(bytes) - PadLength(bytes))))

\* lines 43-61: split(':'), two parts required, the first part is not used;
\* decipher.final() throws when the padding is wrong
decryptData(encryptedData, k) ==
  IF ~encryptedData.string THEN DecryptionError
  ELSE IF Len(encryptedData.parts) # 2 THEN DecryptionError
  ELSE IF encryptedData.parts[2] = <<>> THEN DecryptionError
  ELSE LET bytes == FromBlocks(CbcDecrypt(k, encryptedData.parts[2]))
       IN IF PadLength(bytes) = 0 THEN DecryptionError
          ELSE Decrypted(Utf8Decode(SubSeq(bytes, 1, Len(bytes) - PadLength(bytes))))

MaxTokens == 1
NoToken == [text |-> <<>>, key |-> 0, token |-> NotAString]
NoDecryption == [token |-> NotAString, key |-> 0, made |-> NoToken,
                 result |-> DecryptionError]

\* the process has started with one configured key and has encrypted nothing
InitVault ==
  vault \in [key : EncryptionKeys, tokens : {{}}, last : {NoDecryption}]

\* initDatabase on a new database, and no request to the auth routes
InitAuth ==
  /\ users = <<>>
  /\ otps = {}
  /\ password_reset_tokens = {}
  /\ clock = 0
  /\ authReq = [r \in AuthRequests |-> InitAuthReq]
  /\ ledger = [otps |-> <<>>, tokens |-> <<>>]

\* the specifications of the pipeline run under the first key
InitSide == InitVault /\ vault.key = 1 /\ InitAuth

\* no request is in progress when the process has started
InitProcess ==
  /\ pc = [c \in Calls |-> "idle"]
  /\ call = [c \in Calls |-> InitCall]
  /\ audit = [c \in Calls |-> InitAudit]
  /\ connect = [r \in ConnSlots |-> InitConnect]
  /\ exchange = [x \in Exchanges |-> InitExchange]

\* initDatabase on a new ./autotrader.db: CREATE TABLE leaves every table empty
InitFresh ==
  /\ webhook_logs = <<>>
  /\ orders = <<>>
  /\ positions = {}
  /\ positionSeq = 0
  /\ broker_connections = <<>>
  /\ InitProcess
  /\ InitSide

\* initDatabase on the ./autotrader.db of an earlier run (CREATE TABLE IF NOT
\* EXISTS keeps the rows): user 1 had connected a broker and one BUY of 10 was
\* executed at 100.  The tables are those the pipeline itself leaves after
\* that call (see RestartUnreached, which TLC refutes under SpecFresh).
RestartPayload ==
  [symbol |-> "RELIANCE", action |-> "BUY", quantity |-> 10, price |-> 110]

RestartLogs ==
  <<[user_id |-> 1, payload |-> RestartPayload, status |-> "SUCCESS",
     error_message |-> ""]>>

RestartOrders ==
  <<[user_id |-> 1, symbol |-> "RELIANCE", quantity |-> 10, side |-> "BUY",
     price |-> 110, status |-> "EXECUTED", broker_order_id |-> "BK1",
     executed_price |-> 100]>>

RestartPositions ==
  {[id |-> 1, user_id |-> 1, symbol |-> "RELIANCE", quantity |-> 10,
    average_price |-> <<100, 1>>, created_by |-> 1]}

RestartConnections ==
  <<[user_id |-> 1, broker_name |-> "zerodha", is_active |-> 1,
     access_token |-> "AT0", public_token |-> "PT0"]>>

InitRestart ==
  /\ webhook_logs = RestartLogs
  /\ orders = RestartOrders
  /\ positions = RestartPositions
  /\ positionSeq = 1
  /\ broker_connections = RestartConnections
  /\ InitProcess
  /\ InitSide

Init == InitFresh \/ InitRestart


(* ------------------------- persistence helpers ------------------------ *)
Max(S) == CHOOSE x \in S : \A y \in S : y <= x

Abs(n) == IF n < 0 THEN -n ELSE n

RECURSIVE Gcd(_, _)
Gcd(a, b) == IF b = 0 THEN a ELSE Gcd(b, a % b)

\* an exact fraction in lowest terms with a positive denominator; <<0, 0>>
\* stands for the non-finite result of a division by zero
Fraction(n, d) ==
  IF d = 0 THEN <<0, 0>>
  ELSE LET g == Gcd(Abs(n), Abs(d))
           s == IF d < 0 THEN -1 ELSE 1
       IN <<(s * n) \div g, (s * d) \div g>>

\* (SELECT MAX(id) FROM webhook_logs WHERE user_id = ?), 0 for NULL
MaxLogId(userId) ==
  LET ids == {i \in DOMAIN webhook_logs : webhook_logs[i].user_id = userId}
  IN IF ids = {} THEN 0 ELSE Max(ids)

\* UPDATE webhook_logs SET status = ?, error_message = ? WHERE user_id = ?
\*   AND id = (SELECT MAX(id) ...)
LogStatusAndError(userId, status, message) ==
  [i \in DOMAIN webhook_logs |->
     IF i = MaxLogId(userId)
     THEN [webhook_logs[i] EXCEPT !.status = status, !.error_message = message]
     ELSE webhook_logs[i]]

\* UPDATE webhook_logs SET status = ? WHERE user_id = ? AND id = (SELECT MAX(id) ...)
LogStatus(userId, status) ==
  [i \in DOMAIN webhook_logs |->
     IF i = MaxLogId(userId)
     THEN [webhook_logs[i] EXCEPT !.status = status]
     ELSE webhook_logs[i]]

\* rows of SELECT * FROM broker_connections WHERE user_id = ? AND is_active = 1
ActiveConnections(userId) ==
  {i \in DOMAIN broker_connections :
     /\ broker_connections[i].user_id = userId
     /\ broker_connections[i].is_active = 1}

\* rows of SELECT * FROM positions WHERE user_id = ? AND symbol = ?
PositionsOf(userId, symbol) ==
  {p \in positions : p.user_id = userId /\ p.symbol = symbol}

InFlight(c) == pc[c] \notin {"idle", "done"}

\* the check of line 34 dropped: an order is created without a connection
NoConnectionFound_Never(brokerConnection) == FALSE

\* webhook.js line 34: !brokerConnection
NoConnectionFound(brokerConnection) == brokerConnection = 0

\* the test of line 73 dropped: the position is reconciled for every status
IsExecuted_Always(status) == TRUE

\* webhook.js line 73: brokerResponse.status === 'EXECUTED'
IsExecuted(status) == status = "EXECUTED"

Respond(c, status) ==
  /\ call' = [call EXCEPT ![c].res = status]
  /\ pc' = [pc EXCEPT ![c] = "done"]

(* --------------------- POST /webhook/:userId -------------------------- *)
\* the INSERT of lines 14-17 left out: the call proceeds without a log row
Receive_Unlogged(c, userId, payload) ==
  /\ pc[c] = "idle"
  /\ IF c = 1 THEN TRUE ELSE pc[c - 1] # "idle"
  /\ call' = [call EXCEPT ![c].userId = userId, ![c].payload = payload]
  /\ pc' = [pc EXCEPT ![c] = "logged"]
  /\ UNCHANGED <<webhook_logs, orders, positions, positionSeq,
                 broker_connections, audit, connect>>
  /\ UNCHANGED sideVars

\* lines 10-17: the call arrives and its log row is inserted
Receive(c, userId, payload) ==
  /\ pc[c] = "idle"
  /\ IF c = 1 THEN TRUE ELSE pc[c - 1] # "idle"
  /\ webhook_logs' = Append(webhook_logs,
       [user_id |-> userId, payload |-> payload, status |-> "RECEIVED",
        error_message |-> ""])
  /\ call' = [call EXCEPT ![c].userId = userId, ![c].payload = payload]
  /\ audit' = [audit EXCEPT ![c].logId = Len(webhook_logs) + 1,
                            ![c].logInserts = @ + 1]
  /\ pc' = [pc EXCEPT ![c] = "logged"]
  /\ UNCHANGED <<orders, positions, positionSeq, broker_connections, connect>>
  /\ UNCHANGED sideVars

\* lines 20-26: invalid payload
RejectPayload(c) ==
  /\ pc[c] = "logged"
  /\ InvalidPayload(call[c].payload)
  /\ webhook_logs' = LogStatusAndError(call[c].userId, "ERROR", "Invalid payload format")
  /\ Respond(c, 400)
  /\ audit' = [audit EXCEPT ![c].responses = @ + 1]
  /\ UNCHANGED <<orders, positions, positionSeq, broker_connections, connect>>
  /\ UNCHANGED sideVars

\* lines 29-32: SELECT ... WHERE user_id = ? AND is_active = 1 LIMIT 1
\* (no ORDER BY: any active row of the user may be the one returned)
ResolveConnection(c) ==
  /\ pc[c] = "logged"
  /\ ~InvalidPayload(call[c].payload)
  /\ \E id \in (IF ActiveConnections(call[c].userId) = {} THEN {0}
                ELSE ActiveConnections(call[c].userId)) :
       call' = [call EXCEPT ![c].brokerConnection = id]
  /\ pc' = [pc EXCEPT ![c] = "resolved"]
  /\ UNCHANGED <<webhook_logs, orders, positions, positionSeq,
                 broker_connections, audit, connect>>
  /\ UNCHANGED sideVars

\* lines 34-40: no active connection
RejectNoConnection(c) ==
  /\ pc[c] = "resolved"
  /\ NoConnectionFound(call[c].brokerConnection)
  /\ webhook_logs' = LogStatusAndError(call[c].userId, "ERROR", "No active broker connection")
  /\ Respond(c, 400)
  /\ audit' = [audit EXCEPT ![c].responses = @ + 1]
  /\ UNCHANGED <<orders, positions, positionSeq, broker_connections, connect>>
  /\ UNCHANGED sideVars

\* the row inserted with another status than 'PENDING' (line 52)
CreateOrder_Placed(c) ==
  /\ pc[c] = "resolved"
  /\ ~NoConnectionFound(call[c].brokerConnection)
  /\ orders' = Append(orders,
       [user_id |-> call[c].userId, symbol |-> call[c].payload.symbol,
        quantity |-> call[c].payload.quantity, side |-> call[c].payload.action,
        price |-> call[c].payload.price, status |-> "PLACED",
        broker_order_id |-> "", executed_price |-> 0])
  /\ call' = [call EXCEPT ![c].orderId = Len(orders) + 1]
  /\ audit' = [audit EXCEPT ![c].orderInserts = @ + 1]
  /\ pc' = [pc EXCEPT ![c] = "ordered"]
  /\ UNCHANGED <<webhook_logs, positions, positionSeq, broker_connections, connect>>
  /\ UNCHANGED sideVars

\* lines 43-54: INSERT INTO orders ... 'PENDING'
CreateOrder(c) ==
  /\ pc[c] = "resolved"
  /\ ~NoConnectionFound(call[c].brokerConnection)
  /\ orders' = Append(orders,
       [user_id |-> call[c].userId, symbol |-> call[c].payload.symbol,
        quantity |-> call[c].payload.quantity, side |-> call[c].payload.action,
        price |-> call[c].payload.price, status |-> "PENDING",
        broker_order_id |-> "", executed_price |-> 0])
  /\ call' = [call EXCEPT ![c].orderId = Len(orders) + 1]
  /\ audit' = [audit EXCEPT ![c].orderInserts = @ + 1]
  /\ pc' = [pc EXCEPT ![c] = "ordered"]
  /\ UNCHANGED <<webhook_logs, positions, positionSeq, broker_connections, connect>>
  /\ UNCHANGED sideVars


\* placeBrokerOrder(connection, order) of services/brokerService.js: resolves
\* with {orderId, status, executedPrice} or rejects with an error message.
\* An executed price is reported with status EXECUTED only.
placeBrokerOrder(c) ==
  [kind : {"resolve"},
   response : [orderId : {"BK" \o ToString(c)}, status : {"EXECUTED"},
               executedPrice : ExecPrices], message : {""}]
  \cup
  [kind : {"resolve"},
   response : [orderId : {"BK" \o ToString(c)},
               status : ReturnedStatuses \ {"EXECUTED"},
               executedPrice : {0}], message : {""}]
  \cup
  [kind : {"reject"}, response : {NoResponse}, message : AdapterMessages]

\* lines 57-64 and 88: await placeBrokerOrder(...) resolves or throws
PlaceOrder(c) ==
  /\ pc[c] = "ordered"
  /\ \E outcome \in placeBrokerOrder(c) :
       IF outcome.kind = "resolve"
       THEN /\ call' = [call EXCEPT ![c].brokerResponse = outcome.response]
            /\ pc' = [pc EXCEPT ![c] = "placed"]
       ELSE /\ call' = [call EXCEPT ![c].brokerError = outcome.message]
            /\ pc' = [pc EXCEPT ![c] = "caught"]
  /\ audit' = [audit EXCEPT ![c].brokerCalls = @ + 1]
  /\ UNCHANGED <<webhook_logs, orders, positions, positionSeq,
                 broker_connections, connect>>
  /\ UNCHANGED sideVars

\* lines 67-70: UPDATE orders SET broker_order_id, status, executed_price WHERE id = ?
UpdateOrder(c) ==
  /\ pc[c] = "placed"
  /\ orders' = [orders EXCEPT ![call[c].orderId] =
       [@ EXCEPT !.broker_order_id = call[c].brokerResponse.orderId,
                 !.status = call[c].brokerResponse.status,
                 !.executed_price = call[c].brokerResponse.executedPrice]]
  /\ pc' = [pc EXCEPT ![c] = "orderUpdated"]
  /\ UNCHANGED <<webhook_logs, positions, positionSeq, broker_connections,
                 call, audit, connect>>
  /\ UNCHANGED sideVars

\* lines 73 and 112-115: status EXECUTED, updatePosition reads the position.
\* With no row and a side other than BUY (line 141) updatePosition issues no
\* statement and returns.
ReadPosition(c) ==
  /\ pc[c] = "orderUpdated"
  /\ IsExecuted(call[c].brokerResponse.status)
  /\ LET found == PositionsOf(call[c].userId, call[c].payload.symbol)
     IN \E row \in (IF found = {} THEN {NoPosition} ELSE found) :
          /\ call' = [call EXCEPT ![c].existingPosition = row]
          /\ pc' = [pc EXCEPT ![c] =
               IF row = NoPosition /\ call[c].payload.action # "BUY"
               THEN "positionDone" ELSE "positionRead"]
  /\ UNCHANGED <<webhook_logs, orders, positions, positionSeq,
                 broker_connections, audit, connect>>
  /\ UNCHANGED sideVars

\* lines 120-126
\* a sale that stops at zero instead of going below the held quantity
NewQuantity_Floored(existing, quantity, side) ==
  IF side = "BUY" THEN existing.quantity + quantity
  ELSE Max({0, existing.quantity - quantity})

NewQuantity(existing, quantity, side) ==
  IF side = "BUY" THEN existing.quantity + quantity
  ELSE existing.quantity - quantity

\* the mean of the old average and the fill price, not weighted by quantity
NewAveragePrice_Unweighted(existing, quantity, side, price) ==
  IF side = "BUY"
  THEN Fraction(existing.average_price[1] + price * existing.average_price[2],
                2 * existing.average_price[2])
  ELSE existing.average_price

NewAveragePrice(existing, quantity, side, price) ==
  IF side = "BUY"
  THEN Fraction(existing.average_price[1] * existing.quantity
                  + price * quantity * existing.average_price[2],
                existing.average_price[2] * (existing.quantity + quantity))
  ELSE existing.average_price

\* the update computed from the row as stored when the statement runs
\* (SET quantity = quantity + ?), not from the row read earlier
positionsAfter_Atomic(userId, symbol, quantity, side, price, existing, orderId) ==
  IF existing # NoPosition
  THEN {p \in {IF q.id = existing.id
               THEN [q EXCEPT !.quantity = NewQuantity(q, quantity, side),
                              !.average_price =
                                 NewAveragePrice(q, quantity, side, price)]
               ELSE q : q \in positions} : p.quantity # 0}
  ELSE IF side = "BUY" /\ PositionsOf(userId, symbol) = {}
       THEN positions \cup
              {[id |-> positionSeq + 1, user_id |-> userId, symbol |-> symbol,
                quantity |-> quantity, average_price |-> <<price, 1>>,
                created_by |-> orderId]}
       ELSE positions

\* the statement without the branch of lines 128-132: a flat row is updated
positionsAfter_NoDelete(userId, symbol, quantity, side, price, existing, orderId) ==
  IF existing # NoPosition
  THEN {IF p.id = existing.id
        THEN [p EXCEPT !.quantity = NewQuantity(existing, quantity, side),
                       !.average_price = IF NewQuantity(existing, quantity, side) = 0
                                         THEN existing.average_price
                                         ELSE NewAveragePrice(existing, quantity,
                                                              side, price)]
        ELSE p : p \in positions}
  ELSE IF side = "BUY" /\ PositionsOf(userId, symbol) = {}
       THEN positions \cup
              {[id |-> positionSeq + 1, user_id |-> userId, symbol |-> symbol,
                quantity |-> quantity, average_price |-> <<price, 1>>,
                created_by |-> orderId]}
       ELSE positions

\* lines 117-147: the statement updatePosition issues after its read.
\* INSERT fails on UNIQUE(user_id, symbol); the error is swallowed (148-150).
positionsAfter(userId, symbol, quantity, side, price, existing, orderId) ==
  IF existing # NoPosition
  THEN IF NewQuantity(existing, quantity, side) = 0
       THEN {p \in positions : p.id # existing.id}
       ELSE {IF p.id = existing.id
             THEN [p EXCEPT !.quantity = NewQuantity(existing, quantity, side),
                            !.average_price =
                               NewAveragePrice(existing, quantity, side, price)]
             ELSE p : p \in positions}
  ELSE IF side = "BUY" /\ PositionsOf(userId, symbol) = {}
       THEN positions \cup
              {[id |-> positionSeq + 1, user_id |-> userId, symbol |-> symbol,
                quantity |-> quantity, average_price |-> <<price, 1>>,
                created_by |-> orderId]}
       ELSE positions

\* `changes` of that statement: the rows it inserted, updated or deleted
RowsChanged(userId, symbol, side, existing) ==
  IF existing # NoPosition
  THEN IF \E p \in positions : p.id = existing.id THEN 1 ELSE 0
  ELSE IF side = "BUY" /\ PositionsOf(userId, symbol) = {} THEN 1 ELSE 0

\* updatePosition called with the price of the request instead of the fill
WritePosition_RequestPrice(c) ==
  /\ pc[c] = "positionRead"
  /\ positions' = positionsAfter(call[c].userId, call[c].payload.symbol,
                    call[c].payload.quantity, call[c].payload.action,
                    call[c].payload.price, call[c].existingPosition,
                    call[c].orderId)
  /\ positionSeq' = IF \E p \in positions' : p.id = positionSeq + 1
                    THEN positionSeq + 1 ELSE positionSeq
  /\ audit' = [audit EXCEPT ![c].positionWrites =
                 @ + RowsChanged(call[c].userId, call[c].payload.symbol,
                                 call[c].payload.action, call[c].existingPosition)]
  /\ pc' = [pc EXCEPT ![c] = "positionDone"]
  /\ UNCHANGED <<webhook_logs, orders, broker_connections, call, connect>>
  /\ UNCHANGED sideVars

\* lines 128-146: the DELETE, UPDATE or INSERT of updatePosition
WritePosition(c) ==
  /\ pc[c] = "positionRead"
  /\ positions' = positionsAfter(call[c].userId, call[c].payload.symbol,
                    call[c].payload.quantity, call[c].payload.action,
                    call[c].brokerResponse.executedPrice, call[c].existingPosition,
                    call[c].orderId)
  /\ positionSeq' = IF \E p \in positions' : p.id = positionSeq + 1
                    THEN positionSeq + 1 ELSE positionSeq
  /\ audit' = [audit EXCEPT ![c].positionWrites =
                 @ + RowsChanged(call[c].userId, call[c].payload.symbol,
                                 call[c].payload.action, call[c].existingPosition)]
  /\ pc' = [pc EXCEPT ![c] = "positionDone"]
  /\ UNCHANGED <<webhook_logs, orders, broker_connections, call, connect>>
  /\ UNCHANGED sideVars

\* lines 77-86: log SUCCESS and answer 200
LogSuccess(c) ==
  /\ \/ pc[c] = "positionDone"
     \/ pc[c] = "orderUpdated" /\ ~IsExecuted(call[c].brokerResponse.status)
  /\ webhook_logs' = LogStatus(call[c].userId, "SUCCESS")
  /\ Respond(c, 200)
  /\ audit' = [audit EXCEPT ![c].responses = @ + 1]
  /\ UNCHANGED <<orders, positions, positionSeq, broker_connections, connect>>
  /\ UNCHANGED sideVars

\* a failed placement tried once more before the Order is marked FAILED
MarkOrderFailed_Retry(c) ==
  /\ pc[c] = "caught"
  /\ IF audit[c].brokerCalls < 2
     THEN /\ call' = [call EXCEPT ![c].brokerError = ""]
          /\ pc' = [pc EXCEPT ![c] = "ordered"]
          /\ UNCHANGED orders
     ELSE /\ orders' = [orders EXCEPT ![call[c].orderId].status = "FAILED"]
          /\ pc' = [pc EXCEPT ![c] = "failedMarked"]
          /\ UNCHANGED call
  /\ UNCHANGED <<webhook_logs, positions, positionSeq, broker_connections,
                 audit, connect>>
  /\ UNCHANGED sideVars

\* lines 88-93: catch (brokerError): UPDATE orders SET status = 'FAILED' WHERE id = ?
MarkOrderFailed(c) ==
  /\ pc[c] = "caught"
  /\ orders' = [orders EXCEPT ![call[c].orderId].status = "FAILED"]
  /\ pc' = [pc EXCEPT ![c] = "failedMarked"]
  /\ UNCHANGED <<webhook_logs, positions, positionSeq, broker_connections,
                 call, audit, connect>>
  /\ UNCHANGED sideVars

\* lines 95-105: log ERROR with the message, rethrow, outer catch answers 500
LogBrokerError(c) ==
  /\ pc[c] = "failedMarked"
  /\ webhook_logs' = LogStatusAndError(call[c].userId, "ERROR", call[c].brokerError)
  /\ Respond(c, 500)
  /\ audit' = [audit EXCEPT ![c].responses = @ + 1]
  /\ UNCHANGED <<orders, positions, positionSeq, broker_connections, connect>>
  /\ UNCHANGED sideVars

WebhookStep(c) ==
  \/ RejectPayload(c)
  \/ ResolveConnection(c)
  \/ RejectNoConnection(c)
  \/ CreateOrder(c)
  \/ PlaceOrder(c)
  \/ UpdateOrder(c)
  \/ ReadPosition(c)
  \/ WritePosition(c)
  \/ LogSuccess(c)
  \/ MarkOrderFailed(c)
  \/ LogBrokerError(c)

(* ------------------- POST /broker/connect, /disconnect ---------------- *)
\* brokerName.toLowerCase()
ToLowerCase(name) ==
  IF name \in {"Zerodha", "ZERODHA"} THEN "zerodha"
  ELSE IF name = "Upstox" THEN "upstox" ELSE name

\* broker.js lines 66-80: SELECT id ... WHERE user_id = ? AND broker_name = ?
ConnectSelect(r, user, brokerName) ==
  /\ connect[r].state = "idle"
  /\ IF r = 1 THEN TRUE ELSE connect[r - 1].state # "idle"
  /\ LET found == {i \in DOMAIN broker_connections :
                     /\ broker_connections[i].user_id = user
                     /\ broker_connections[i].broker_name = ToLowerCase(brokerName)}
     IN \E id \in (IF found = {} THEN {0} ELSE found) :
          connect' = [connect EXCEPT ![r] =
            [state |-> "selected", user |-> user, brokerName |-> brokerName,
             existing |-> id]]
  /\ UNCHANGED <<webhook_logs, orders, positions, positionSeq,
                 broker_connections, pc, call, audit>>
  /\ UNCHANGED sideVars

\* the INSERT on a table without UNIQUE(user_id, broker_name)
ConnectWrite_NoUnique(r) ==
  /\ connect[r].state = "selected"
  /\ broker_connections' =
       IF connect[r].existing # 0
       THEN [broker_connections EXCEPT ![connect[r].existing].is_active = 1]
       ELSE Append(broker_connections,
              [user_id |-> connect[r].user,
               broker_name |-> ToLowerCase(connect[r].brokerName),
               is_active |-> 1, access_token |-> "", public_token |-> ""])
  /\ connect' = [connect EXCEPT ![r].state = "done"]
  /\ UNCHANGED <<webhook_logs, orders, positions, positionSeq, pc, call, audit>>
  /\ UNCHANGED sideVars

\* broker.js lines 83-100: UPDATE ... is_active = 1 WHERE id = ?, or INSERT.
\* The table is that of the schema whose columns the statements name
\* (webhook_url): it has UNIQUE(user_id, broker_name), and an INSERT of a
\* pair that is stored is rejected (catch of lines 130-133, answer 500).
ConnectWrite(r) ==
  /\ connect[r].state = "selected"
  /\ LET pairStored ==
           \E i \in DOMAIN broker_connections :
             /\ broker_connections[i].user_id = connect[r].user
             /\ broker_connections[i].broker_name = ToLowerCase(connect[r].brokerName)
     IN IF connect[r].existing # 0
        THEN /\ broker_connections' =
                  [broker_connections EXCEPT ![connect[r].existing].is_active = 1]
             /\ connect' = [connect EXCEPT ![r].state = "done"]
        ELSE IF pairStored
        THEN /\ UNCHANGED broker_connections
             /\ connect' = [connect EXCEPT ![r].state = "failed"]
        ELSE /\ broker_connections' =
                  Append(broker_connections,
                    [user_id |-> connect[r].user,
                     broker_name |-> ToLowerCase(connect[r].brokerName),
                     is_active |-> 1, access_token |-> "", public_token |-> ""])
             /\ connect' = [connect EXCEPT ![r].state = "done"]
  /\ UNCHANGED <<webhook_logs, orders, positions, positionSeq, pc, call, audit>>
  /\ UNCHANGED sideVars

\* an UPDATE that also matches every other active row
Disconnect_EveryActiveRow(user, connectionId) ==
  /\ connectionId \in DOMAIN broker_connections
  /\ broker_connections[connectionId].user_id = user
  /\ broker_connections[connectionId].is_active = 1
  /\ broker_connections' =
       [i \in DOMAIN broker_connections |->
          [broker_connections[i] EXCEPT !.is_active = 0]]
  /\ UNCHANGED <<webhook_logs, orders, positions, positionSeq, pc, call,
                 audit, connect>>
  /\ UNCHANGED sideVars

\* broker.js lines 346-353: UPDATE ... SET is_active = 0 WHERE id = ? AND user_id = ?
Disconnect(user, connectionId) ==
  /\ connectionId \in DOMAIN broker_connections
  /\ broker_connections[connectionId].user_id = user
  /\ broker_connections[connectionId].is_active = 1
  /\ broker_connections' = [broker_connections EXCEPT ![connectionId].is_active = 0]
  /\ UNCHANGED <<webhook_logs, orders, positions, positionSeq, pc, call,
                 audit, connect>>
  /\ UNCHANGED sideVars

BrokerStep ==
  \/ \E r \in ConnReqs, u \in Users, b \in BrokerNames : ConnectSelect(r, u, b)
  \/ \E r \in ConnReqs : ConnectWrite(r)
  \/ \E u \in Users, id \in DOMAIN broker_connections : Disconnect(u, id)

(* ---------------------------- specifications -------------------------- *)
Next ==
  \/ \E c \in Calls, u \in Users, p \in Payloads : Receive(c, u, p)
  \/ \E c \in Calls : WebhookStep(c)
  \/ BrokerStep

Spec == Init /\ [][Next]_vars


\* Calls processed one at a time: a call arrives only when no other is in flight.
NextSeq ==
  \/ \E c \in Calls, u \in Users, p \in Payloads :
       (\A d \in Calls : ~InFlight(d)) /\ Receive(c, u, p)
  \/ \E c \in Calls : WebhookStep(c)
  \/ BrokerStep

SpecSeq == Init /\ [][NextSeq]_vars

\* Calls processed one at a time while the user connects and disconnects
\* brokers of either name.
NextBroker ==
  \/ \E c \in Calls, u \in Users, p \in Payloads :
       (\A d \in Calls : ~InFlight(d)) /\ Receive(c, u, p)
  \/ \E c \in Calls : WebhookStep(c)
  \/ \E r \in ConnReqs, u \in Users, b \in BrokerNames \cup OtherBrokerNames :
       ConnectSelect(r, u, b)
  \/ \E r \in ConnReqs : ConnectWrite(r)
  \/ \E u \in Users, id \in DOMAIN broker_connections : Disconnect(u, id)

SpecBroker == Init /\ [][NextBroker]_vars

\* Connect and disconnect requests alone: two connect requests may overlap,
\* and a broker may be named in either spelling.
NextConnect ==
  \/ \E r \in ConnSlots, u \in Users,
        b \in BrokerNames \cup OtherBrokerNames \cup OtherSpellings :
       ConnectSelect(r, u, b)
  \/ \E r \in ConnSlots : ConnectWrite(r)
  \/ \E u \in Users, id \in DOMAIN broker_connections : Disconnect(u, id)

SpecConnect == Init /\ [][NextConnect]_vars

(* -------- GET /broker/auth/zerodha/callback, POST /broker/auth/zerodha -------- *)
\* broker.js line 144: action !== 'login' || status !== 'success' || !request_token
NotALogin(q) == q.action # "login" \/ q.status # "success" \/ q.request_token = ""

\* lines 139-169: the callback answers 400 before any statement
CallbackReject(x, q) ==
  /\ exchange[x].state = "idle"
  /\ IF x = 1 THEN TRUE ELSE exchange[x - 1].state # "idle"
  /\ NotALogin(q) \/ q.connection_id = 0
  /\ exchange' = [exchange EXCEPT ![x] =
       [InitExchange EXCEPT !.state = "answered", !.route = "callback",
          !.request_token = q.request_token, !.action = q.action,
          !.status = q.status, !.connection_id = q.connection_id, !.res = 400]]
  /\ UNCHANGED pipelineVars
  /\ UNCHANGED vault
  /\ UNCHANGED authVars

\* a callback that looks the connection up for any action and status
CallbackSelect_AnyStatus(x, q) ==
  /\ exchange[x].state = "idle"
  /\ IF x = 1 THEN TRUE ELSE exchange[x - 1].state # "idle"
  /\ q.request_token # "" /\ q.connection_id # 0
  /\ exchange' = [exchange EXCEPT ![x] =
       [InitExchange EXCEPT !.state = "selected", !.route = "callback",
          !.request_token = q.request_token, !.action = q.action,
          !.status = q.status, !.connection_id = q.connection_id,
          !.connection = IF q.connection_id \in DOMAIN broker_connections
                         THEN q.connection_id ELSE 0]]
  /\ UNCHANGED pipelineVars
  /\ UNCHANGED vault
  /\ UNCHANGED authVars

\* lines 172-175: SELECT * FROM broker_connections WHERE id = ?
CallbackSelect(x, q) ==
  /\ exchange[x].state = "idle"
  /\ IF x = 1 THEN TRUE ELSE exchange[x - 1].state # "idle"
  /\ ~NotALogin(q) /\ q.connection_id # 0
  /\ exchange' = [exchange EXCEPT ![x] =
       [InitExchange EXCEPT !.state = "selected", !.route = "callback",
          !.request_token = q.request_token, !.action = q.action,
          !.status = q.status, !.connection_id = q.connection_id,
          !.connection = IF q.connection_id \in DOMAIN broker_connections
                         THEN q.connection_id ELSE 0]]
  /\ UNCHANGED pipelineVars
  /\ UNCHANGED vault
  /\ UNCHANGED authVars

\* lines 288-292: !connectionId || !requestToken answers 400
AuthZerodhaReject(x, user, connectionId, requestToken) ==
  /\ exchange[x].state = "idle"
  /\ IF x = 1 THEN TRUE ELSE exchange[x - 1].state # "idle"
  /\ connectionId = 0 \/ requestToken = ""
  /\ exchange' = [exchange EXCEPT ![x] =
       [InitExchange EXCEPT !.state = "answered", !.route = "auth",
          !.user = user, !.request_token = requestToken,
          !.connection_id = connectionId, !.res = 400]]
  /\ UNCHANGED pipelineVars
  /\ UNCHANGED vault
  /\ UNCHANGED authVars

\* lines 295-298: SELECT * FROM broker_connections WHERE id = ? AND user_id = ?
AuthZerodhaSelect(x, user, connectionId, requestToken) ==
  /\ exchange[x].state = "idle"
  /\ IF x = 1 THEN TRUE ELSE exchange[x - 1].state # "idle"
  /\ connectionId # 0 /\ requestToken # ""
  /\ exchange' = [exchange EXCEPT ![x] =
       [InitExchange EXCEPT !.state = "selected", !.route = "auth",
          !.user = user, !.request_token = requestToken,
          !.connection_id = connectionId,
          !.connection =
             IF /\ connectionId \in DOMAIN broker_connections
                /\ broker_connections[connectionId].user_id = user
             THEN connectionId ELSE 0]]
  /\ UNCHANGED pipelineVars
  /\ UNCHANGED vault
  /\ UNCHANGED authVars

\* lines 177-188 and 300-302: no row, answer 404
ConnectionNotFound(x) ==
  /\ exchange[x].state = "selected"
  /\ exchange[x].connection = 0
  /\ exchange' = [exchange EXCEPT ![x].state = "answered", ![x].res = 404]
  /\ UNCHANGED pipelineVars
  /\ UNCHANGED vault
  /\ UNCHANGED authVars

\* lines 192-195 and 305-308: kiteService.generateAccessToken resolves with
\* the tokens of the session, or rejects (catch of lines 256 and 337: 500)
GenerateAccessToken(x) ==
  /\ exchange[x].state = "selected"
  /\ exchange[x].connection # 0
  /\ \/ \E authData \in AuthDatas :
          exchange' = [exchange EXCEPT ![x].state = "exchanged",
                                       ![x].authData = authData]
     \/ exchange' = [exchange EXCEPT ![x].state = "answered", ![x].res = 500]
  /\ UNCHANGED pipelineVars
  /\ UNCHANGED vault
  /\ UNCHANGED authVars

\* lines 198-202 and 311-315: UPDATE ... SET access_token = ?, public_token = ?,
\* is_active = 1 WHERE id = ?.  A column holds encryptData of the token and is
\* written here as the token it encrypts.
StoreTokens(x) ==
  /\ exchange[x].state = "exchanged"
  /\ broker_connections' =
       [i \in DOMAIN broker_connections |->
          IF i = exchange[x].connection_id
          THEN [broker_connections[i] EXCEPT
                  !.access_token = exchange[x].authData.access_token,
                  !.public_token = exchange[x].authData.public_token,
                  !.is_active = 1]
          ELSE broker_connections[i]]
  /\ exchange' = [exchange EXCEPT ![x].state = "stored", ![x].updates = @ + 1]
  /\ UNCHANGED <<webhook_logs, orders, positions, positionSeq, pc, call,
                 audit, connect>>
  /\ UNCHANGED vault
  /\ UNCHANGED authVars

\* lines 205-208 and 318-321: kiteService.initializeKite resolves (answer
\* 200) or rejects (catch: 500); the later synchronisation is not awaited
\* (lines 211-219) or its errors are dropped (lines 324-330)
InitializeKite(x) ==
  /\ exchange[x].state = "stored"
  /\ \E status \in {200, 500} :
       exchange' = [exchange EXCEPT ![x].state = "answered", ![x].res = status]
  /\ UNCHANGED pipelineVars
  /\ UNCHANGED vault
  /\ UNCHANGED authVars

ExchangeStep(x) ==
  \/ \E q \in CallbackQueries : CallbackReject(x, q)
  \/ \E q \in CallbackQueries : CallbackSelect(x, q)
  \/ \E u \in Users, id \in ConnectionIds, t \in RequestTokens :
       AuthZerodhaReject(x, u, id, t)
  \/ \E u \in Users, id \in ConnectionIds, t \in RequestTokens :
       AuthZerodhaSelect(x, u, id, t)
  \/ ConnectionNotFound(x)
  \/ GenerateAccessToken(x)
  \/ StoreTokens(x)
  \/ InitializeKite(x)

\* One webhook call, connect and disconnect requests for either broker, and
\* token exchange requests.
ExchangePayloads ==
  {[symbol |-> "RELIANCE", action |-> "BUY", quantity |-> 10, price |-> 110],
   [symbol |-> "RELIANCE", action |-> "SELL", quantity |-> 0, price |-> 0]}

NextExchange ==
  \/ \E u \in Users, p \in ExchangePayloads : Receive(1, u, p)
  \/ WebhookStep(1)
  \/ \E r \in ConnReqs, u \in Users, b \in BrokerNames \cup OtherBrokerNames :
       ConnectSelect(r, u, b)
  \/ \E r \in ConnReqs : ConnectWrite(r)
  \/ \E u \in Users, id \in DOMAIN broker_connections : Disconnect(u, id)
  \/ \E x \in Exchanges : ExchangeStep(x)

SpecExchange == Init /\ [][NextExchange]_vars

(* ------------------------------ auth routes ---------------------------- *)
\* the state outside the auth routes
nonAuthVars == <<pipelineVars, vault, exchange>>

\* bcrypt.hash(password, 10)
Hash(password) == <<"bcrypt", password>>

\* a request takes the first slot that holds no request or an answered one
Free(r) ==
  /\ authReq[r].state \in {"idle", "answered"}
  /\ \A q \in 1..(r - 1) : authReq[q].state \notin {"idle", "answered"}

Pending(route) ==
  Cardinality({r \in AuthRequests :
                 authReq[r].route = route /\ authReq[r].state # "answered"})

\* requests that insert an OTP or a reset token start while the number of
\* rows ever inserted is below its bound
OtpsLeft ==
  Len(ledger.otps) + Pending("register") + Pending("forgot-password") < MaxOtps

ResetTokensLeft ==
  Len(ledger.tokens) + Pending("verify-otp-reset") < MaxResetTokens

\* the answer of a request; its other locals end with it
Answer(r, status, body) ==
  [InitAuthReq EXCEPT !.state = "answered", !.route = authReq[r].route,
     !.identifier = authReq[r].identifier,
     !.resetToken = IF authReq[r].route = "verify-otp-reset"
                    THEN authReq[r].resetToken ELSE "",
     !.res = status, !.body = body]

\* SELECT id FROM users WHERE email = ?  (mobileNumber is NULL in every row:
\* the requests register with an email)
UserByEmail(email) ==
  LET found == {i \in DOMAIN users : users[i].email = email}
  IN IF found = {} THEN {0} ELSE found

\* INSERT INTO otps (identifier, type, otp, expires_at, created_at): purpose
\* takes its default.  The ledger keeps the row with the route that issued it.
InsertOtp(identifier, otp, ttl, route) ==
  LET row == [id |-> Len(ledger.otps) + 1, identifier |-> identifier,
              type |-> "email", otp |-> otp, purpose |-> "registration",
              expires_at |-> clock + ttl, created_at |-> clock]
  IN /\ otps' = otps \cup {row}
     /\ ledger' = [ledger EXCEPT !.otps =
                     Append(@, [row |-> row, issuedBy |-> route, verified |-> 0])]

\* SELECT id FROM otps WHERE identifier = ? AND otp = ? AND expires_at > ?
\* ORDER BY created_at DESC LIMIT 1
SelectOtp(identifier, otp, now) ==
  LET matching == {o \in otps : /\ o.identifier = identifier /\ o.otp = otp
                                /\ o.expires_at > now}
      newest == {o \in matching : \A p \in matching : p.created_at <= o.created_at}
  IN IF matching = {} THEN {0} ELSE {o.id : o \in newest}

\* DELETE FROM otps WHERE id = ?, followed by the answer 200
DeleteOtp(id) ==
  /\ otps' = {o \in otps : o.id # id}
  /\ ledger' = [ledger EXCEPT !.otps[id].verified = @ + 1]

\* part_005 lines 14-22 of /register: SELECT id FROM users WHERE email = ?
RegisterSelect(r, email, password) ==
  /\ Free(r) /\ OtpsLeft
  /\ \E id \in UserByEmail(email) :
       authReq' = [authReq EXCEPT ![r] =
         [InitAuthReq EXCEPT !.state = "selected", !.route = "register",
            !.identifier = email, !.password = password, !.record = id]]
  /\ UNCHANGED <<users, otps, password_reset_tokens, clock, ledger>>
  /\ UNCHANGED nonAuthVars

\* lines 23-48: 400 for a stored user, else INSERT INTO users; email is
\* UNIQUE, and the INSERT of a stored email is rejected (catch: 500)
RegisterInsertUser(r) ==
  /\ authReq[r].state = "selected" /\ authReq[r].route = "register"
  /\ IF authReq[r].record # 0
     THEN /\ authReq' = [authReq EXCEPT ![r] = Answer(r, 400, "User already exists")]
          /\ UNCHANGED users
     ELSE IF UserByEmail(authReq[r].identifier) # {0}
     THEN /\ authReq' = [authReq EXCEPT ![r] = Answer(r, 500, "Registration failed")]
          /\ UNCHANGED users
     ELSE /\ users' = Append(users, [email |-> authReq[r].identifier,
                                      password |-> Hash(authReq[r].password)])
          /\ authReq' = [authReq EXCEPT ![r].state = "inserted",
                                        ![r].record = Len(users) + 1]
  /\ UNCHANGED <<otps, password_reset_tokens, clock, ledger>>
  /\ UNCHANGED nonAuthVars

\* lines 50-81: INSERT INTO otps with 5 minutes to live, answer 201
RegisterInsertOtp(r, otp) ==
  /\ authReq[r].state = "inserted" /\ authReq[r].route = "register"
  /\ InsertOtp(authReq[r].identifier, otp, RegisterOtpTtl, "register")
  /\ authReq' = [authReq EXCEPT ![r] = Answer(r, 201, "User created successfully")]
  /\ UNCHANGED <<users, password_reset_tokens, clock>>
  /\ UNCHANGED nonAuthVars

\* lines 255-259 of /forgot-password
ForgotPasswordReject(r) ==
  /\ Free(r)
  /\ authReq' = [authReq EXCEPT ![r] =
       [InitAuthReq EXCEPT !.state = "answered", !.route = "forgot-password",
          !.res = 400, !.body = "Email or mobile number is required"]]
  /\ UNCHANGED <<users, otps, password_reset_tokens, clock, ledger>>
  /\ UNCHANGED nonAuthVars

\* lines 262-265: SELECT ... FROM users WHERE email = ? OR mobileNumber = ?
ForgotPasswordSelect(r, identifier) ==
  /\ Free(r) /\ OtpsLeft
  /\ identifier # ""
  /\ \E id \in UserByEmail(identifier) :
       authReq' = [authReq EXCEPT ![r] =
         [InitAuthReq EXCEPT !.state = "selected", !.route = "forgot-password",
            !.identifier = identifier, !.record = id]]
  /\ UNCHANGED <<users, otps, password_reset_tokens, clock, ledger>>
  /\ UNCHANGED nonAuthVars

\* an answer that tells an unknown identifier apart
ForgotPasswordUnknown_NotFound(r) ==
  /\ authReq[r].state = "selected" /\ authReq[r].route = "forgot-password"
  /\ authReq[r].record = 0
  /\ authReq' = [authReq EXCEPT ![r] = Answer(r, 404, "User not found")]
  /\ UNCHANGED <<users, otps, password_reset_tokens, clock, ledger>>
  /\ UNCHANGED nonAuthVars

\* lines 268-271: no user
ForgotPasswordUnknown(r) ==
  /\ authReq[r].state = "selected" /\ authReq[r].route = "forgot-password"
  /\ authReq[r].record = 0
  /\ authReq' = [authReq EXCEPT ![r] =
       Answer(r, 200, "If a matching account is found, an OTP has been sent.")]
  /\ UNCHANGED <<users, otps, password_reset_tokens, clock, ledger>>
  /\ UNCHANGED nonAuthVars

\* lines 273-287: INSERT INTO otps with 10 minutes to live
ForgotPasswordInsert(r, otp) ==
  /\ authReq[r].state = "selected" /\ authReq[r].route = "forgot-password"
  /\ authReq[r].record # 0
  /\ InsertOtp(authReq[r].identifier, otp, ForgotOtpTtl, "forgot-password")
  /\ authReq' = [authReq EXCEPT ![r] =
       Answer(r, 200, "If a matching account is found, an OTP has been sent.")]
  /\ UNCHANGED <<users, password_reset_tokens, clock>>
  /\ UNCHANGED nonAuthVars

\* lines 91-95 of /verify-otp
VerifyOtpReject(r, identifier, otp) ==
  /\ Free(r)
  /\ identifier = "" \/ otp = ""
  /\ authReq' = [authReq EXCEPT ![r] =
       [InitAuthReq EXCEPT !.state = "answered", !.route = "verify-otp",
          !.identifier = identifier,
          !.res = 400, !.body = "Identifier and OTP are required"]]
  /\ UNCHANGED <<users, otps, password_reset_tokens, clock, ledger>>
  /\ UNCHANGED nonAuthVars

\* lines 97-103
VerifyOtpSelect(r, identifier, otp) ==
  /\ Free(r)
  /\ identifier # "" /\ otp # ""
  /\ \E id \in SelectOtp(identifier, otp, clock) :
       authReq' = [authReq EXCEPT ![r] =
         [InitAuthReq EXCEPT !.state = "selected", !.route = "verify-otp",
            !.identifier = identifier, !.otp = otp, !.now = clock,
            !.record = id]]
  /\ UNCHANGED <<users, otps, password_reset_tokens, clock, ledger>>
  /\ UNCHANGED nonAuthVars

\* lines 105-107
VerifyOtpInvalid(r) ==
  /\ authReq[r].state = "selected" /\ authReq[r].route = "verify-otp"
  /\ authReq[r].record = 0
  /\ authReq' = [authReq EXCEPT ![r] = Answer(r, 400, "Invalid or expired OTP")]
  /\ UNCHANGED <<users, otps, password_reset_tokens, clock, ledger>>
  /\ UNCHANGED nonAuthVars

\* lines 110-112
VerifyOtpDelete(r) ==
  /\ authReq[r].state = "selected" /\ authReq[r].route = "verify-otp"
  /\ authReq[r].record # 0
  /\ DeleteOtp(authReq[r].record)
  /\ authReq' = [authReq EXCEPT ![r] = Answer(r, 200, "OTP verified successfully")]
  /\ UNCHANGED <<users, password_reset_tokens, clock>>
  /\ UNCHANGED nonAuthVars

\* lines 122-126 of /verify-otp-reset
VerifyOtpResetReject(r, identifier, otp) ==
  /\ Free(r)
  /\ identifier = "" \/ otp = ""
  /\ authReq' = [authReq EXCEPT ![r] =
       [InitAuthReq EXCEPT !.state = "answered", !.route = "verify-otp-reset",
          !.identifier = identifier,
          !.res = 400, !.body = "Identifier and OTP are required"]]
  /\ UNCHANGED <<users, otps, password_reset_tokens, clock, ledger>>
  /\ UNCHANGED nonAuthVars

\* lines 128-134: the SELECT of /verify-otp, with no condition on purpose
VerifyOtpResetSelect(r, identifier, otp) ==
  /\ Free(r) /\ ResetTokensLeft
  /\ identifier # "" /\ otp # ""
  /\ \E id \in SelectOtp(identifier, otp, clock) :
       authReq' = [authReq EXCEPT ![r] =
         [InitAuthReq EXCEPT !.state = "selected", !.route = "verify-otp-reset",
            !.identifier = identifier, !.otp = otp, !.now = clock,
            !.record = id]]
  /\ UNCHANGED <<users, otps, password_reset_tokens, clock, ledger>>
  /\ UNCHANGED nonAuthVars

\* lines 136-138
VerifyOtpResetInvalid(r) ==
  /\ authReq[r].state = "selected" /\ authReq[r].route = "verify-otp-reset"
  /\ authReq[r].record = 0
  /\ authReq' = [authReq EXCEPT ![r] = Answer(r, 400, "Invalid or expired OTP")]
  /\ UNCHANGED <<users, otps, password_reset_tokens, clock, ledger>>
  /\ UNCHANGED nonAuthVars

\* lines 141-148: INSERT INTO password_reset_tokens with 15 minutes to live.
\* The ledger keeps the row with the OTP that was exchanged for it.
VerifyOtpResetInsert(r) ==
  /\ authReq[r].state = "selected" /\ authReq[r].route = "verify-otp-reset"
  /\ authReq[r].record # 0
  /\ LET row == [id |-> Len(ledger.tokens) + 1,
                 identifier |-> authReq[r].identifier,
                 token |-> RandomUUID(Len(ledger.tokens) + 1),
                 expires_at |-> clock + ResetTokenTtl, created_at |-> clock]
     IN /\ password_reset_tokens' = password_reset_tokens \cup {row}
        /\ ledger' = [ledger EXCEPT !.tokens =
                        Append(@, [row |-> row, otp |-> authReq[r].record,
                                   changes |-> 0])]
        /\ authReq' = [authReq EXCEPT ![r].state = "inserted",
                                      ![r].resetToken = row.token]
  /\ UNCHANGED <<users, otps, clock>>
  /\ UNCHANGED nonAuthVars

\* lines 151-156
VerifyOtpResetDelete(r) ==
  /\ authReq[r].state = "inserted" /\ authReq[r].route = "verify-otp-reset"
  /\ DeleteOtp(authReq[r].record)
  /\ authReq' = [authReq EXCEPT ![r] = Answer(r, 200, "OTP verified successfully")]
  /\ UNCHANGED <<users, password_reset_tokens, clock>>
  /\ UNCHANGED nonAuthVars

\* lines 210-214 of /reset-password
ResetPasswordReject(r, resetToken, newPassword) ==
  /\ Free(r)
  /\ resetToken = "" \/ newPassword = ""
  /\ authReq' = [authReq EXCEPT ![r] =
       [InitAuthReq EXCEPT !.state = "answered", !.route = "reset-password",
          !.res = 400, !.body = "Reset token and new password are required"]]
  /\ UNCHANGED <<users, otps, password_reset_tokens, clock, ledger>>
  /\ UNCHANGED nonAuthVars

\* lines 216-222: SELECT id, identifier FROM password_reset_tokens WHERE
\* token = ? AND expires_at > ? ORDER BY created_at DESC LIMIT 1
ResetPasswordSelect(r, resetToken, newPassword) ==
  /\ Free(r)
  /\ resetToken # "" /\ newPassword # ""
  /\ LET matching == {t \in password_reset_tokens :
                        t.token = resetToken /\ t.expires_at > clock}
         newest == {t \in matching : \A p \in matching : p.created_at <= t.created_at}
     IN \E id \in (IF matching = {} THEN {0} ELSE {t.id : t \in newest}) :
          authReq' = [authReq EXCEPT ![r] =
            [InitAuthReq EXCEPT !.state = "selected", !.route = "reset-password",
               !.resetToken = resetToken, !.password = newPassword,
               !.now = clock, !.record = id,
               !.identifier = IF id = 0 THEN "" ELSE ledger.tokens[id].row.identifier]]
  /\ UNCHANGED <<users, otps, password_reset_tokens, clock, ledger>>
  /\ UNCHANGED nonAuthVars

\* lines 224-226
ResetPasswordInvalid(r) ==
  /\ authReq[r].state = "selected" /\ authReq[r].route = "reset-password"
  /\ authReq[r].record = 0
  /\ authReq' = [authReq EXCEPT ![r] = Answer(r, 400, "Invalid or expired reset token")]
  /\ UNCHANGED <<users, otps, password_reset_tokens, clock, ledger>>
  /\ UNCHANGED nonAuthVars

\* lines 229-235: UPDATE users SET password = ? WHERE email = ? OR mobileNumber = ?
ResetPasswordUpdate(r) ==
  /\ authReq[r].state = "selected" /\ authReq[r].route = "reset-password"
  /\ authReq[r].record # 0
  /\ users' = [i \in DOMAIN users |->
                 IF users[i].email = authReq[r].identifier
                 THEN [users[i] EXCEPT !.password = Hash(authReq[r].password)]
                 ELSE users[i]]
  /\ ledger' = [ledger EXCEPT !.tokens[authReq[r].record].changes = @ + 1]
  /\ authReq' = [authReq EXCEPT ![r].state = "updated"]
  /\ UNCHANGED <<otps, password_reset_tokens, clock>>
  /\ UNCHANGED nonAuthVars

\* lines 238-240: DELETE FROM password_reset_tokens WHERE id = ?
ResetPasswordDelete(r) ==
  /\ authReq[r].state = "updated" /\ authReq[r].route = "reset-password"
  /\ password_reset_tokens' =
       {t \in password_reset_tokens : t.id # authReq[r].record}
  /\ authReq' = [authReq EXCEPT ![r] = Answer(r, 200, "Password reset successfully")]
  /\ UNCHANGED <<users, otps, clock, ledger>>
  /\ UNCHANGED nonAuthVars

\* five minutes pass
Tick ==
  /\ clock < MaxTime
  /\ clock' = clock + 1
  /\ UNCHANGED <<users, otps, password_reset_tokens, authReq, ledger>>
  /\ UNCHANGED nonAuthVars

AuthStep(r) ==
  \/ \E e \in RegisterEmails : RegisterSelect(r, e, "p0")
  \/ RegisterInsertUser(r)
  \/ \E o \in OtpCodes : RegisterInsertOtp(r, o)
  \/ ForgotPasswordReject(r)
  \/ \E i \in Identifiers : ForgotPasswordSelect(r, i)
  \/ ForgotPasswordUnknown(r)
  \/ \E o \in OtpCodes : ForgotPasswordInsert(r, o)
  \/ \E g \in IncompleteGuesses : VerifyOtpReject(r, g[1], g[2])
  \/ \E i \in Identifiers, o \in GuessedCodes : VerifyOtpSelect(r, i, o)
  \/ VerifyOtpInvalid(r)
  \/ VerifyOtpDelete(r)
  \/ \E g \in IncompleteGuesses : VerifyOtpResetReject(r, g[1], g[2])
  \/ \E i \in Identifiers, o \in GuessedCodes : VerifyOtpResetSelect(r, i, o)
  \/ VerifyOtpResetInvalid(r)
  \/ VerifyOtpResetInsert(r)
  \/ VerifyOtpResetDelete(r)
  \/ \E b \in IncompleteResets : ResetPasswordReject(r, b[1], b[2])
  \/ \E t \in ResetTokens : ResetPasswordSelect(r, t, "p1")
  \/ ResetPasswordInvalid(r)
  \/ ResetPasswordUpdate(r)
  \/ ResetPasswordDelete(r)

\* Requests to the auth routes that overlap, while time passes.
NextAuth ==
  \/ \E r \in AuthRequests : AuthStep(r)
  \/ Tick

\* the users table of an earlier run: the user has registered and has
\* verified the OTP of the registration
RestartUsers == <<[email |-> "a@x.in", password |-> Hash("p0")]>>

InitAuthRestart ==
  /\ users = RestartUsers
  /\ otps = {}
  /\ password_reset_tokens = {}
  /\ clock = 0
  /\ authReq = [r \in AuthRequests |-> InitAuthReq]
  /\ ledger = [otps |-> <<>>, tokens |-> <<>>]

InitAuthRoutes ==
  /\ webhook_logs = <<>>
  /\ orders = <<>>
  /\ positions = {}
  /\ positionSeq = 0
  /\ broker_connections = <<>>
  /\ InitProcess
  /\ InitVault /\ vault.key = 1
  /\ InitAuth \/ InitAuthRestart

SpecAuth == InitAuthRoutes /\ [][NextAuth]_vars

(* ----------------- a persistence layer that may reject ---------------- *)
DbErrorMessage == "SQLITE_ERROR"

\* line 14 rejects: outer catch (103-106), no log row
DbRejectInsertLog(c, userId, payload) ==
  /\ pc[c] = "idle"
  /\ IF c = 1 THEN TRUE ELSE pc[c - 1] # "idle"
  /\ call' = [call EXCEPT ![c].userId = userId, ![c].payload = payload, ![c].res = 500]
  /\ pc' = [pc EXCEPT ![c] = "done"]
  /\ audit' = [audit EXCEPT ![c].responses = @ + 1]
  /\ UNCHANGED <<webhook_logs, orders, positions, positionSeq,
                 broker_connections, connect>>
  /\ UNCHANGED sideVars

\* a statement outside the inner try (lines 21, 29, 35, 43) or inside its
\* catch block (lines 90, 95) rejects: outer catch, 500
DbRejectOuter(c) ==
  /\ pc[c] \in {"logged", "resolved", "caught", "failedMarked"}
  /\ Respond(c, 500)
  /\ audit' = [audit EXCEPT ![c].responses = @ + 1]
  /\ UNCHANGED <<webhook_logs, orders, positions, positionSeq,
                 broker_connections, connect>>
  /\ UNCHANGED sideVars

\* a statement inside the inner try (lines 67, 77) rejects: catch (brokerError)
DbRejectInner(c) ==
  /\ \/ pc[c] = "placed"
     \/ pc[c] = "positionDone"
     \/ pc[c] = "orderUpdated" /\ ~IsExecuted(call[c].brokerResponse.status)
  /\ call' = [call EXCEPT ![c].brokerError = DbErrorMessage]
  /\ pc' = [pc EXCEPT ![c] = "caught"]
  /\ UNCHANGED <<webhook_logs, orders, positions, positionSeq,
                 broker_connections, audit, connect>>
  /\ UNCHANGED sideVars

\* a statement of updatePosition (lines 112, 130, 136, 143) rejects: the
\* error is logged and swallowed (148-150)
DbRejectPosition(c) ==
  /\ \/ pc[c] = "positionRead"
     \/ pc[c] = "orderUpdated" /\ IsExecuted(call[c].brokerResponse.status)
  /\ pc' = [pc EXCEPT ![c] = "positionDone"]
  /\ UNCHANGED <<webhook_logs, orders, positions, positionSeq,
                 broker_connections, call, audit, connect>>
  /\ UNCHANGED sideVars

NextFault ==
  \/ \E c \in Calls, u \in Users, p \in Payloads : Receive(c, u, p)
  \/ \E c \in Calls : WebhookStep(c)
  \/ BrokerStep
  \/ \E c \in Calls, u \in Users, p \in Payloads : DbRejectInsertLog(c, u, p)
  \/ \E c \in Calls : DbRejectOuter(c)
  \/ \E c \in Calls : DbRejectInner(c)
  \/ \E c \in Calls : DbRejectPosition(c)

SpecFault == InitFresh /\ [][NextFault]_vars

\* the tables of InitRestart are left by one call on a fresh database
SpecFresh == InitFresh /\ [][Next]_vars

RestartUnreached ==
  ~ /\ webhook_logs = RestartLogs
    /\ orders = RestartOrders
    /\ positions = RestartPositions
    /\ positionSeq = 1
    /\ broker_connections = RestartConnections
    /\ \A c \in Calls : ~InFlight(c)


(* --------------- calls of encryptData and decryptData ----------------- *)
\* Both functions are synchronous: calls do not overlap, they follow one
\* another in any order.  A token is kept (in api_key, api_secret,
\* access_token, public_token) with the text and key it was made from.

\* encryptData(text) under the configured key, the result stored
Encrypt(text, iv) ==
  /\ Cardinality(vault.tokens) < MaxTokens
  /\ vault' = [vault EXCEPT !.tokens =
                 @ \cup {[text |-> text, key |-> vault.key,
                          token |-> encryptData(text, vault.key, iv)]}]
  /\ UNCHANGED pipelineVars
  /\ UNCHANGED exchange
  /\ UNCHANGED authVars

\* a stored token is overwritten or its row deleted
Discard(t) ==
  /\ t \in vault.tokens
  /\ vault' = [vault EXCEPT !.tokens = @ \ {t}]
  /\ UNCHANGED pipelineVars
  /\ UNCHANGED exchange
  /\ UNCHANGED authVars

\* decryptData of a stored token
Decrypt(t) ==
  /\ t \in vault.tokens
  /\ vault' = [vault EXCEPT !.last =
                 [token |-> t.token, key |-> vault.key, made |-> t,
                  result |-> decryptData(t.token, vault.key)]]
  /\ UNCHANGED pipelineVars
  /\ UNCHANGED exchange
  /\ UNCHANGED authVars

\* a stored token with its first part cut off, or with a third part
Malformed(token) ==
  {[string |-> TRUE, parts |-> <<token.parts[2]>>],
   [string |-> TRUE, parts |-> token.parts \o <<token.parts[2]>>],
   NotAString}

\* decryptData of a value that is no token
DecryptMalformed(encryptedData) ==
  /\ vault' = [vault EXCEPT !.last =
                 [token |-> encryptedData, key |-> vault.key, made |-> NoToken,
                  result |-> decryptData(encryptedData, vault.key)]]
  /\ UNCHANGED pipelineVars
  /\ UNCHANGED exchange
  /\ UNCHANGED authVars

\* the process is started again with another ENCRYPTION_KEY (line 3)
Reconfigure(k) ==
  /\ k # vault.key
  /\ vault' = [vault EXCEPT !.key = k]
  /\ UNCHANGED pipelineVars
  /\ UNCHANGED exchange
  /\ UNCHANGED authVars

NextCrypto ==
  \/ \E text \in Texts, iv \in RandomIvs : Encrypt(text, iv)
  \/ \E t \in vault.tokens : Discard(t)
  \/ \E t \in vault.tokens : Decrypt(t)
  \/ \E t \in vault.tokens : \E m \in Malformed(t.token) : DecryptMalformed(m)
  \/ \E k \in EncryptionKeys : Reconfigure(k)

InitCrypto ==
  /\ webhook_logs = <<>>
  /\ orders = <<>>
  /\ positions = {}
  /\ positionSeq = 0
  /\ broker_connections = <<>>
  /\ InitProcess
  /\ InitVault
  /\ InitAuth

SpecCrypto == InitCrypto /\ [][NextCrypto]_vars

(* ------------------------------- claims ------------------------------- *)
Answered(c) == pc[c] = "done"

MissingField(p) == p.symbol = "" \/ p.action = "" \/ p.quantity = 0

RECURSIVE SumOver(_, _)
SumOver(f, S) ==
  IF S = {} THEN 0
  ELSE LET x == CHOOSE y \in S : TRUE IN f[x] + SumOver(f, S \ {x})

SignedQuantity(o) ==
  IF o.side = "BUY" THEN o.quantity
  ELSE IF o.side = "SELL" THEN -o.quantity
  ELSE 0

\* the user's EXECUTED orders on the symbol since the Position row was created
ExecutedSince(p) ==
  {i \in DOMAIN orders :
     /\ i >= p.created_by
     /\ orders[i].user_id = p.user_id
     /\ orders[i].symbol = p.symbol
     /\ orders[i].status = "EXECUTED"}

\* C2: with calls processed one at a time, between calls the quantity of every
\* Position row equals the signed sum (BUY positive, SELL negative) of the
\* quantities of the user's EXECUTED orders on that symbol since the row was
\* created.
C2_PositionIsSignedSum ==
  (\A c \in Calls : ~InFlight(c)) =>
    \A p \in positions :
      p.quantity = SumOver([i \in DOMAIN orders |-> SignedQuantity(orders[i])],
                           ExecutedSince(p))


\* C3: an Order is created PENDING, and once its status has left PENDING no
\* step changes it again (never back to PENDING, never from one terminal
\* status to another); no step removes an Order row.
C3_StatusMonotonic ==
  [][/\ Len(orders') >= Len(orders)
     /\ \A i \in DOMAIN orders' :
          IF i \in DOMAIN orders
          THEN orders[i].status # "PENDING" => orders'[i].status = orders[i].status
          ELSE orders'[i].status = "PENDING"]_vars


\* c has passed updatePosition having changed a row
WrotePosition(c) ==
  pc[c] \in {"positionDone", "done"} /\ audit[c].positionWrites = 1

FillQuantity(c) ==
  NewQuantity(call[c].existingPosition, call[c].payload.quantity,
              call[c].payload.action)

\* C4: two calls for the same (user, symbol) that both read the same prior
\* Position row before either wrote it back leave, once both have written, a
\* row that reflects the fill of one of them only (a lost update).
C4_LostUpdate ==
  \A c, d \in Calls :
    ( /\ c # d
      /\ WrotePosition(c) /\ WrotePosition(d)
      /\ call[c].existingPosition # NoPosition
      /\ call[c].existingPosition = call[d].existingPosition
      /\ \A e \in Calls \ {c, d} : audit[e].positionWrites = 0 )
    => \A p \in positions :
         p.id = call[c].existingPosition.id =>
           p.quantity \in {FillQuantity(c), FillQuantity(d)}

\* both orders are EXECUTED and answered 200, both BUYs read the same prior
\* row, and the stored quantity is the prior quantity plus one fill only
C4_Witness ==
  \E c, d \in Calls :
    /\ c # d
    /\ Answered(c) /\ Answered(d) /\ call[c].res = 200 /\ call[d].res = 200
    /\ orders[call[c].orderId].status = "EXECUTED"
    /\ orders[call[d].orderId].status = "EXECUTED"
    /\ call[c].payload.action = "BUY" /\ call[d].payload.action = "BUY"
    /\ call[c].existingPosition # NoPosition
    /\ call[c].existingPosition = call[d].existingPosition
    /\ \E p \in positions :
         /\ p.id = call[c].existingPosition.id
         /\ p.quantity = call[c].existingPosition.quantity + call[d].payload.quantity
         /\ p.quantity # call[c].existingPosition.quantity
                           + call[c].payload.quantity + call[d].payload.quantity


\* the WebhookLog row the call inserted
OwnLog(c) == webhook_logs[audit[c].logId]

\* C5: a call whose payload misses symbol, action or quantity answers 400, its
\* own WebhookLog row ends ERROR, and it creates no Order, does not invoke the
\* broker adapter and changes no Position.
C5_InvalidPayloadRejected ==
  \A c \in Calls :
    Answered(c) /\ MissingField(call[c].payload) =>
      /\ call[c].res = 400
      /\ OwnLog(c).status = "ERROR"
      /\ audit[c].orderInserts = 0
      /\ audit[c].brokerCalls = 0
      /\ audit[c].positionWrites = 0

\* C6: a well-formed call of a user without an active BrokerConnection answers
\* 400, creates no Order, does not invoke the broker adapter, and its own
\* WebhookLog row ends ERROR.
C6_NoConnectionRejected ==
  \A c \in Calls :
    Answered(c) /\ ~MissingField(call[c].payload) /\ call[c].brokerConnection = 0 =>
      /\ call[c].res = 400
      /\ audit[c].orderInserts = 0
      /\ audit[c].brokerCalls = 0
      /\ OwnLog(c).status = "ERROR"

\* C7: when the broker adapter call failed, the call's Order exists with status
\* FAILED, its own WebhookLog row ends ERROR with the adapter's message, the
\* call changed no Position, and it answered 500.
C7_BrokerFailureRecorded ==
  \A c \in Calls :
    Answered(c) /\ call[c].brokerError # "" =>
      /\ call[c].orderId \in DOMAIN orders
      /\ orders[call[c].orderId].status = "FAILED"
      /\ OwnLog(c).status = "ERROR"
      /\ OwnLog(c).error_message = call[c].brokerError
      /\ audit[c].positionWrites = 0
      /\ call[c].res = 500

\* C8: when the broker adapter call succeeded, whatever status it returned,
\* the call's Order carries the broker's id, status and executed price, its own
\* WebhookLog row ends SUCCESS, and it answered 200.
C8_BrokerSuccessRecorded ==
  \A c \in Calls :
    Answered(c) /\ call[c].brokerResponse # NoResponse =>
      /\ orders[call[c].orderId].broker_order_id = call[c].brokerResponse.orderId
      /\ orders[call[c].orderId].status = call[c].brokerResponse.status
      /\ orders[call[c].orderId].executed_price = call[c].brokerResponse.executedPrice
      /\ OwnLog(c).status = "SUCCESS"
      /\ call[c].res = 200

\* C9: every change of the positions table is the single write of a call whose
\* broker response was EXECUTED; a call writes at most once, and not at all
\* when it ends in 400, in a broker failure or with another returned status.
C9_PositionWrittenOnceOnExecuted ==
  [][/\ positions' # positions =>
          \E c \in Calls :
            /\ pc[c] = "positionRead" /\ pc'[c] = "positionDone"
            /\ call[c].brokerResponse.status = "EXECUTED"
            /\ audit[c].positionWrites = 0 /\ audit'[c].positionWrites = 1
     /\ \A c \in Calls :
          /\ audit'[c].positionWrites <= 1
          /\ ( \/ call'[c].res = 400
               \/ call'[c].brokerError # ""
               \/ call'[c].brokerResponse.status # "EXECUTED" )
             => audit'[c].positionWrites = 0]_vars

\* an EXECUTED call has written a Position once and a REJECTED one has not
C9_Witness ==
  \E c, d \in Calls :
    /\ Answered(c) /\ call[c].brokerResponse.status = "EXECUTED"
    /\ audit[c].positionWrites = 1
    /\ Answered(d) /\ call[d].brokerResponse.status = "REJECTED"
    /\ audit[d].positionWrites = 0

\* C10: the log row is inserted with status RECEIVED by the first step of the
\* call, before validation, connection lookup, Order creation and broker call:
\* a call that has not inserted its row has done nothing else, and a call past
\* that step has its row, holding its user and payload.
C10_LogRowFirst ==
  /\ [](\A c \in Calls :
          IF pc[c] = "idle"
          THEN call[c] = InitCall /\ audit[c] = InitAudit
          ELSE /\ audit[c].logInserts = 1
               /\ audit[c].logId \in DOMAIN webhook_logs
               /\ OwnLog(c).user_id = call[c].userId
               /\ OwnLog(c).payload = call[c].payload)
  /\ [][\A c \in Calls :
          pc[c] = "idle" /\ pc'[c] # "idle" =>
            /\ Len(webhook_logs') = Len(webhook_logs) + 1
            /\ audit'[c].logId = Len(webhook_logs')
            /\ webhook_logs'[audit'[c].logId].status = "RECEIVED"
            /\ orders' = orders /\ positions' = positions]_vars

\* a call has reached the broker call and its row is in the table
C10_Witness ==
  \E c \in Calls :
    /\ audit[c].brokerCalls = 1
    /\ audit[c].logId \in DOMAIN webhook_logs
    /\ OwnLog(c).payload = call[c].payload

\* C11: a step that invokes the broker adapter finds the call's Order row in
\* the table, with status PENDING and the request as submitted; a new Order
\* row is PENDING; no step removes an Order row or changes what it records of
\* the request, so the row is there after the call, whether the broker call
\* succeeded or failed.
C11_OrderBeforeBrokerAndKept ==
  [][/\ Len(orders') >= Len(orders)
     /\ \A i \in DOMAIN orders :
          /\ orders'[i].user_id = orders[i].user_id
          /\ orders'[i].symbol = orders[i].symbol
          /\ orders'[i].quantity = orders[i].quantity
          /\ orders'[i].side = orders[i].side
     /\ \A i \in DOMAIN orders' \ DOMAIN orders : orders'[i].status = "PENDING"
     /\ \A c \in Calls :
          audit'[c].brokerCalls > audit[c].brokerCalls =>
            /\ call[c].orderId \in DOMAIN orders
            /\ orders[call[c].orderId].status = "PENDING"
            /\ orders[call[c].orderId].user_id = call[c].userId
            /\ orders[call[c].orderId].symbol = call[c].payload.symbol
            /\ orders[call[c].orderId].quantity = call[c].payload.quantity
            /\ orders[call[c].orderId].side = call[c].payload.action]_vars

\* one call whose broker call failed and one whose broker call succeeded have
\* answered, and the Order rows of both are in the table
C11_Witness ==
  \E c, d \in Calls :
    /\ Answered(c) /\ call[c].brokerError # "" /\ audit[c].brokerCalls = 1
    /\ call[c].orderId \in DOMAIN orders
    /\ orders[call[c].orderId].status = "FAILED"
    /\ Answered(d) /\ call[d].brokerResponse # NoResponse
    /\ call[d].orderId \in DOMAIN orders

\* the step of call c that runs the write of updatePosition on the row it read
Reconciles(c) ==
  /\ pc[c] = "positionRead" /\ pc'[c] = "positionDone"
  /\ call[c].existingPosition # NoPosition
  /\ \E p \in positions : p.id = call[c].existingPosition.id

\* C12: when an EXECUTED BUY is reconciled with the Position row the call read
\* and the sum old_quantity + qty is not 0, the stored row gets quantity
\* old_quantity + qty and an average price a with
\* a * new_quantity = old_avg * old_quantity + fill_price * qty.
C12_BuyWeightedAverage ==
  [][\A c \in Calls :
       (Reconciles(c) /\ call[c].payload.action = "BUY"
          /\ call[c].existingPosition.quantity + call[c].payload.quantity # 0) =>
         LET old == call[c].existingPosition
             qty == call[c].payload.quantity
             fill == call[c].brokerResponse.executedPrice
         IN \E p \in positions' :
              /\ p.id = old.id
              /\ p.quantity = old.quantity + qty
              /\ p.average_price[2] # 0
              /\ p.average_price[1] * p.quantity * old.average_price[2] =
                   (old.average_price[1] * old.quantity
                      + fill * qty * old.average_price[2]) * p.average_price[2]]_vars

\* the example of the claim: (qty 10, avg 100) and a BUY fill (qty 10,
\* price 120) have given (qty 20, avg 110)
C12_Witness ==
  \E c \in Calls :
    /\ Answered(c) /\ call[c].payload.action = "BUY"
    /\ call[c].payload.quantity = 10
    /\ call[c].brokerResponse # NoResponse
    /\ call[c].brokerResponse.status = "EXECUTED"
    /\ call[c].brokerResponse.executedPrice = 120
    /\ call[c].existingPosition # NoPosition
    /\ call[c].existingPosition.quantity = 10
    /\ call[c].existingPosition.average_price = <<100, 1>>
    /\ \E p \in positions : /\ p.id = call[c].existingPosition.id
                            /\ p.quantity = 20
                            /\ p.average_price = <<110, 1>>

\* C13: when an EXECUTED SELL is reconciled with the Position row the call
\* read and old_quantity - qty is not 0, the stored row gets quantity
\* old_quantity - qty, also below zero, and keeps the average price read.
C13_SellKeepsAverage ==
  [][\A c \in Calls :
       (Reconciles(c) /\ call[c].payload.action = "SELL"
          /\ call[c].existingPosition.quantity - call[c].payload.quantity # 0) =>
         \E p \in positions' :
           /\ p.id = call[c].existingPosition.id
           /\ p.quantity = call[c].existingPosition.quantity - call[c].payload.quantity
           /\ p.average_price = call[c].existingPosition.average_price]_vars

\* a SELL of 20 against a held quantity of 10 has left -10 at the old average
C13_Witness ==
  \E c \in Calls :
    /\ Answered(c) /\ call[c].payload.action = "SELL"
    /\ call[c].payload.quantity = 20
    /\ call[c].existingPosition # NoPosition
    /\ call[c].existingPosition.quantity = 10
    /\ \E p \in positions : /\ p.id = call[c].existingPosition.id
                            /\ p.quantity = -10
                            /\ p.average_price = call[c].existingPosition.average_price

\* C14: no stored Position row has quantity 0, and a reconciliation whose new
\* quantity is 0 removes the row it read.
C14_NoFlatRow ==
  /\ [](\A p \in positions : p.quantity # 0)
  /\ [][\A c \in Calls :
          (Reconciles(c)
             /\ (IF call[c].payload.action = "BUY"
                 THEN call[c].existingPosition.quantity + call[c].payload.quantity
                 ELSE call[c].existingPosition.quantity - call[c].payload.quantity) = 0)
            => ~ \E p \in positions' : p.id = call[c].existingPosition.id]_vars

\* a SELL of the whole held quantity has removed the row
C14_Witness ==
  \E c \in Calls :
    /\ Answered(c) /\ call[c].payload.action = "SELL"
    /\ call[c].existingPosition # NoPosition
    /\ call[c].existingPosition.quantity = call[c].payload.quantity
    /\ audit[c].positionWrites = 1
    /\ ~ \E p \in positions : p.id = call[c].existingPosition.id

\* C15: a call whose SELL was EXECUTED and whose read found no Position row of
\* the user and symbol changed no Position row, its Order is EXECUTED, its own
\* WebhookLog row ends SUCCESS.
C15_SellWithoutPosition ==
  \A c \in Calls :
    ( /\ Answered(c) /\ call[c].payload.action = "SELL"
      /\ call[c].brokerResponse # NoResponse
      /\ call[c].brokerResponse.status = "EXECUTED"
      /\ call[c].existingPosition = NoPosition ) =>
      /\ audit[c].positionWrites = 0
      /\ orders[call[c].orderId].status = "EXECUTED"
      /\ OwnLog(c).status = "SUCCESS"

\* C16: when an EXECUTED BUY is reconciled and the user has no Position row of
\* the symbol, neither at the call's read nor when its INSERT runs, the step
\* adds exactly one row, of that user and symbol, with the order quantity and
\* the broker's executed price as average price, and touches no other row.
C16_BuyOpensPosition ==
  [][\A c \in Calls :
       ( /\ pc[c] = "positionRead" /\ pc'[c] = "positionDone"
         /\ call[c].payload.action = "BUY"
         /\ call[c].existingPosition = NoPosition
         /\ ~ \E p \in positions : /\ p.user_id = call[c].userId
                                   /\ p.symbol = call[c].payload.symbol ) =>
         \E p \in positions' :
           /\ p \notin positions
           /\ positions' = positions \cup {p}
           /\ p.user_id = call[c].userId
           /\ p.symbol = call[c].payload.symbol
           /\ p.quantity = call[c].payload.quantity
           /\ p.average_price = <<call[c].brokerResponse.executedPrice, 1>>
           /\ audit'[c].positionWrites = 1]_vars

\* a BUY requested at 110 and filled at 120 has opened a Position at 120
C16_Witness ==
  \E c \in Calls :
    /\ Answered(c) /\ call[c].payload.action = "BUY"
    /\ call[c].payload.price = 110
    /\ call[c].existingPosition = NoPosition
    /\ call[c].brokerResponse # NoResponse
    /\ call[c].brokerResponse.status = "EXECUTED"
    /\ \E p \in positions : /\ p.created_by = call[c].orderId
                            /\ p.user_id = call[c].userId
                            /\ p.quantity = call[c].payload.quantity
                            /\ p.average_price = <<120, 1>>

\* C17: the lookup of a call that yields a connection yields the user's only
\* active BrokerConnection, and the step that invokes the broker adapter uses
\* a connection of that user which is active and is the user's only active one.
C17_SingleActiveConnection ==
  [][\A c \in Calls :
       /\ (pc[c] = "logged" /\ pc'[c] = "resolved"
             /\ call'[c].brokerConnection # 0) =>
            {i \in DOMAIN broker_connections :
               /\ broker_connections[i].user_id = call[c].userId
               /\ broker_connections[i].is_active = 1}
              = {call'[c].brokerConnection}
       /\ audit'[c].brokerCalls > audit[c].brokerCalls =>
            /\ call[c].brokerConnection \in DOMAIN broker_connections
            /\ broker_connections[call[c].brokerConnection].user_id = call[c].userId
            /\ broker_connections[call[c].brokerConnection].is_active = 1
            /\ {i \in DOMAIN broker_connections :
                  /\ broker_connections[i].user_id = call[c].userId
                  /\ broker_connections[i].is_active = 1}
                 = {call[c].brokerConnection}]_vars

\* C18: a call invokes the broker adapter at most once: the step that invokes
\* it is the first invocation of that call, taken with the Order just
\* inserted and no broker outcome yet, so after a failure (or a success) the
\* same call never places again.
C18_NoRetry ==
  [][\A c \in Calls :
       /\ audit'[c].brokerCalls <= 1
       /\ audit'[c].brokerCalls # audit[c].brokerCalls =>
            /\ audit[c].brokerCalls = 0
            /\ pc[c] = "ordered"
            /\ call[c].brokerError = ""
            /\ call[c].brokerResponse = NoResponse
       /\ audit'[c].orderInserts <= 1]_vars

\* a call whose only placement failed has answered 500
C18_Witness ==
  \E c \in Calls :
    /\ Answered(c) /\ call[c].brokerError # "" /\ call[c].res = 500
    /\ audit[c].brokerCalls = 1
    /\ orders[call[c].orderId].status = "FAILED"

\* C19: a call answers at most once; a call that has ended has answered
\* exactly once, with 200, 400 or 500; and a call that inserted its WebhookLog
\* row and ended with 500 has left that row at ERROR.
C19_ErrorsLoggedAndAnswered ==
  \A c \in Calls :
    /\ audit[c].responses <= 1
    /\ Answered(c) => /\ audit[c].responses = 1
                      /\ call[c].res \in {200, 400, 500}
    /\ (Answered(c) /\ call[c].res = 500 /\ audit[c].logInserts = 1) =>
         webhook_logs[audit[c].logId].status = "ERROR"

\* C20: a call whose action is a non-empty value other than BUY and SELL
\* inserts no Order and writes no Position row.
C20_OnlyBuyAndSell ==
  \A c \in Calls :
    (pc[c] # "idle" /\ call[c].payload.action \notin {"", "BUY", "SELL"}) =>
      /\ audit[c].orderInserts = 0
      /\ audit[c].positionWrites = 0

\* unpaired surrogates have no UTF-8 form
WellFormed(text) == \A i \in DOMAIN text : text[i] # "D800"

\* C21 (as stated): decrypting a token under the key it was made with gives
\* back the text it was made from, for every non-empty text.
C21_RoundTripEveryString ==
  (vault.last.made # NoToken /\ vault.last.key = vault.last.made.key) =>
    /\ vault.last.result.ok
    /\ vault.last.result.value = vault.last.made.text

\* C21 (amended): decrypting a token under the key it was made with gives
\* back the text it was made from, for every non-empty text without an
\* unpaired surrogate, whatever was encrypted or decrypted before and
\* whatever key was configured in between.
C21_RoundTrip ==
  ( /\ vault.last.made # NoToken /\ vault.last.key = vault.last.made.key
    /\ WellFormed(vault.last.made.text) ) =>
    /\ vault.last.result.ok
    /\ vault.last.result.value = vault.last.made.text

\* a text of two characters has come back after the key was changed and
\* changed back
C21_Witness ==
  /\ vault.last.made # NoToken /\ vault.last.key = vault.last.made.key
  /\ vault.last.made.text = <<"k", "FFFD">>
  /\ vault.last.result = Decrypted(<<"k", "FFFD">>)
  /\ vault.key # vault.last.key

\* C22: decryptData of a value that is not a string, of a string that does
\* not have exactly two parts, or of a token made under another key ends in
\* the decryption error and returns no text.
C22_BadTokenIsAnError ==
  (vault.last.made = NoToken \/ vault.last.key # vault.last.made.key) =>
    /\ ~vault.last.result.ok
    /\ vault.last.result.message = "Failed to decrypt data"

\* C23: no two BrokerConnection rows have the same user and stored (lower
\* case) broker name; a connect whose SELECT found the row of the pair adds
\* no row and leaves that row active, and a step adds at most one row.
C23_OneRowPerUserAndBroker ==
  /\ [](\A i, j \in DOMAIN broker_connections :
          ( /\ broker_connections[i].user_id = broker_connections[j].user_id
            /\ broker_connections[i].broker_name = broker_connections[j].broker_name )
            => i = j)
  /\ [][\A r \in ConnSlots :
          (connect[r].state = "selected" /\ connect'[r].state # "selected"
             /\ connect[r].existing # 0) =>
            /\ Len(broker_connections') = Len(broker_connections)
            /\ broker_connections'[connect[r].existing].is_active = 1
            /\ \A i \in DOMAIN broker_connections :
                 i # connect[r].existing =>
                   broker_connections'[i] = broker_connections[i]]_vars

\* two connect requests for one user and broker, spelled differently, have
\* overlapped: both found no row, one inserted it and the other was rejected
C23_Witness ==
  \E r, q \in ConnSlots :
    /\ connect[r].state = "done" /\ connect[q].state = "failed"
    /\ connect[r].existing = 0 /\ connect[q].existing = 0
    /\ connect[r].user = connect[q].user
    /\ connect[r].brokerName # connect[q].brokerName
    /\ Cardinality({i \in DOMAIN broker_connections :
                      /\ broker_connections[i].user_id = connect[r].user
                      /\ broker_connections[i].broker_name = "zerodha"}) = 1

\* C24: a step of a call changes no WebhookLog row but the one that call
\* inserted, and a call that answered 200 or 400 has not left its own row
\* at RECEIVED.
C24_OwnLogRowUpdated ==
  /\ [][\A i \in DOMAIN webhook_logs :
          webhook_logs'[i] # webhook_logs[i] =>
            \E c \in Calls : pc'[c] # pc[c] /\ audit[c].logId = i]_vars
  /\ [](\A c \in Calls :
          (Answered(c) /\ call[c].res \in {200, 400}) =>
            webhook_logs[audit[c].logId].status # "RECEIVED")

\* C25: an Order with status FAILED belongs to a call whose broker adapter
\* call failed (it has no broker response), and that call has written no
\* Position row.
C25_FailedMeansBrokerFailed ==
  \A c \in Calls :
    (call[c].orderId # 0 /\ orders[call[c].orderId].status = "FAILED") =>
      /\ call[c].brokerResponse = NoResponse
      /\ audit[c].positionWrites = 0

C27_TokensOnlyAfterExchange ==
  /\ [][ /\ \A i \in DOMAIN broker_connections' :
             IF i \in DOMAIN broker_connections
             THEN ( \/ broker_connections'[i].access_token # broker_connections[i].access_token
                    \/ broker_connections'[i].public_token # broker_connections[i].public_token )
                  => \E x \in Exchanges :
                       /\ exchange[x].state = "exchanged" /\ exchange'[x].state = "stored"
                       /\ exchange[x].connection_id = i
                       /\ exchange[x].authData \in AuthDatas
                       /\ broker_connections'[i].access_token = exchange[x].authData.access_token
                       /\ broker_connections'[i].public_token = exchange[x].authData.public_token
             ELSE /\ broker_connections'[i].access_token = ""
                  /\ broker_connections'[i].public_token = ""
         /\ \A x \in Exchanges :
              (exchange'[x] # exchange[x] /\ exchange'[x].state # "stored")
              => broker_connections' = broker_connections
       ]_vars
  /\ [](\A x \in Exchanges :
          (exchange[x].route = "callback" /\ exchange[x].state = "answered") =>
            /\ ( \/ exchange[x].action # "login" \/ exchange[x].status # "success"
                 \/ exchange[x].request_token = "" \/ exchange[x].connection_id = 0 )
               => exchange[x].res = 400 /\ exchange[x].updates = 0
            /\ ( /\ exchange[x].action = "login" /\ exchange[x].status = "success"
                 /\ exchange[x].request_token # ""
                 /\ exchange[x].connection_id \notin {0} \cup DOMAIN broker_connections )
               => exchange[x].res = 404 /\ exchange[x].updates = 0
            /\ ( /\ exchange[x].connection # 0
                 /\ exchange[x].authData = NoAuthData )
               => exchange[x].res = 500 /\ exchange[x].updates = 0)

\* the token exchange of a callback for a stored connection has failed
C27_Witness ==
  \E x \in Exchanges :
    /\ exchange[x].route = "callback" /\ exchange[x].state = "answered"
    /\ exchange[x].res = 500 /\ exchange[x].authData = NoAuthData
    /\ exchange[x].connection = 1
    /\ broker_connections[1].access_token = "AT0"
    /\ broker_connections[1].is_active = 0

\* C28: every OTP row is exchanged for at most one answer 200 of verify-otp
\* or verify-otp-reset, and a request is answered 200 only for a row that
\* has its identifier and code and had not expired when the request read it.
C28_OtpSingleUse ==
  /\ [](\A i \in DOMAIN ledger.otps : ledger.otps[i].verified <= 1)
  /\ [][\A r \in AuthRequests :
          ( /\ authReq[r].route \in {"verify-otp", "verify-otp-reset"}
            /\ authReq'[r].state = "answered" /\ authReq[r].state # "answered"
            /\ authReq'[r].res = 200 ) =>
            /\ authReq[r].record \in DOMAIN ledger.otps
            /\ ledger.otps[authReq[r].record].row.identifier = authReq[r].identifier
            /\ ledger.otps[authReq[r].record].row.otp = authReq[r].otp
            /\ ledger.otps[authReq[r].record].row.expires_at > authReq[r].now
       ]_vars

\* C29: every reset token was issued for an OTP that forgot-password had
\* inserted, and is exchanged for at most one UPDATE of the password; the
\* UPDATE is made for a token that had not expired when the request read it,
\* and changes the password of the user with the identifier of the token.
C29_ResetOnlyAfterForgot ==
  /\ [](\A t \in DOMAIN ledger.tokens :
          /\ ledger.otps[ledger.tokens[t].otp].issuedBy = "forgot-password"
          /\ ledger.otps[ledger.tokens[t].otp].row.identifier =
               ledger.tokens[t].row.identifier
          /\ ledger.tokens[t].changes <= 1)
  /\ [][\A i \in DOMAIN users :
          users'[i].password # users[i].password =>
            \E r \in AuthRequests :
              /\ authReq[r].route = "reset-password"
              /\ authReq[r].state = "selected" /\ authReq'[r].state = "updated"
              /\ authReq[r].record \in DOMAIN ledger.tokens
              /\ ledger.tokens[authReq[r].record].row.token = authReq[r].resetToken
              /\ ledger.tokens[authReq[r].record].row.expires_at > authReq[r].now
              /\ ledger.tokens[authReq[r].record].row.identifier = users[i].email
       ]_vars

\* one reset token is exchanged for at most one UPDATE of the password
C29_TokenUsedOnce ==
  \A t \in DOMAIN ledger.tokens : ledger.tokens[t].changes <= 1

\* C30: a forgot-password request with a non-empty identifier is answered
\* 200 with the same body whether or not the identifier is that of a user,
\* and changes neither the users nor the reset tokens.
C30_ForgotPasswordSameAnswer ==
  /\ [](\A r, q \in AuthRequests :
          ( /\ authReq[r].route = "forgot-password" /\ authReq[r].state = "answered"
            /\ authReq[q].route = "forgot-password" /\ authReq[q].state = "answered"
            /\ authReq[r].identifier # "" /\ authReq[q].identifier # "" ) =>
            /\ authReq[r].res = authReq[q].res
            /\ authReq[r].body = authReq[q].body
            /\ authReq[r].res = 200)
  /\ [][\A r \in AuthRequests :
          (authReq'[r].route = "forgot-password" /\ authReq'[r] # authReq[r]) =>
            /\ users' = users
            /\ password_reset_tokens' = password_reset_tokens
       ]_vars

\* both requests are answered: one for the identifier of a user, for whom an
\* OTP was inserted, and one for an identifier of no user
C30_Witness ==
  /\ authReq[1].route = "forgot-password" /\ authReq[1].state = "answered"
  /\ authReq[1].identifier = "a@x.in"
  /\ authReq[2].route = "forgot-password" /\ authReq[2].state = "answered"
  /\ authReq[2].identifier = "b@x.in"
  /\ \E o \in otps : o.identifier = "a@x.in"
  /\ Len(ledger.otps) = 1 /\ ledger.otps[1].issuedBy = "forgot-password"

=============================================================================
